---- MODULE Spec2Model ----
(***************************************************************************)
(* chain-proxy: one proxy listener (NodeProxyApp or CommonProxyApp), its   *)
(* shared ChainState / NodeState, the health probes that write it and the  *)
(* upstream selector that reads it.                                        *)
(***************************************************************************)
EXTENDS Integers, Sequences, FiniteSets, TLC

\* Largest block height a probe response reports in the model.
MaxTip == 2

----------------------------------------------------------------------------
\* Option<T>: None is the empty sequence, Some(v) the one-element sequence.
None == <<>>
Some(v) == <<v>>
is_some(o) == o # <<>>
is_none(o) == o = <<>>
unwrap(o) == o[1]

SetMax(S) == CHOOSE x \in S : \A y \in S : y <= x
SetMin(S) == CHOOSE x \in S : \A y \in S : x <= y

\* HashMap::insert
MapInsert(m, k, v) == [x \in (DOMAIN m) \cup {k} |-> IF x = k THEN v ELSE m[x]]
EmptyMap == [x \in {} |-> 0]
MapValues(m) == {m[x] : x \in DOMAIN m}

----------------------------------------------------------------------------
\* Node addresses of the configuration file and what url::Url::parse gives
\* for each of them (scheme, host, explicit port).  "http://e/x y" is a URL
\* for url::Url (the blank is percent-encoded on parsing) but the raw string
\* is not an http::Uri.  "ftp://f" parses but has an unsupported scheme.
UrlParse(address) ==
    CASE address = "http://a"      -> Some([scheme |-> "http",  host_str |-> "a", port |-> None])
      [] address = "https://b/v1"  -> Some([scheme |-> "https", host_str |-> "b", port |-> None])
      [] address = "http://c:8545" -> Some([scheme |-> "http",  host_str |-> "c", port |-> Some(8545)])
      [] address = "https://d"     -> Some([scheme |-> "https", host_str |-> "d", port |-> None])
      [] address = "http://e/x y"  -> Some([scheme |-> "http",  host_str |-> "e", port |-> None])
      [] address = "ftp://f"       -> Some([scheme |-> "ftp",   host_str |-> "f", port |-> None])
      [] OTHER                     -> None

\* Addresses whose raw text str::parse::<http::Uri>() rejects.
NotHttpUri == {"http://e/x y"}

\* reqwest::Method::from_bytes on the configured health-check method.
MethodFromBytesOk(method) == method \in {"GET", "POST"}

\* create_chain_proxy_config / create_common_proxy_config: Node -> Option<ChainProxyConfig>
MkProxyConfig(node, hc, gap, ctype) ==
    LET url == UrlParse(node.address) IN
    IF is_none(url) THEN None
    ELSE LET u == unwrap(url) IN
         IF u.scheme \notin {"http", "https"} THEN None
         ELSE LET port == IF is_some(u.port) THEN unwrap(u.port)
                          ELSE IF u.scheme = "http" THEN 80 ELSE 443
              IN Some([proxy_addr     |-> u.host_str \o ":" \o ToString(port),
                       proxy_tls      |-> u.scheme = "https",
                       proxy_hostname |-> u.host_str,
                       proxy_uri      |-> node.address,
                       priority       |-> node.priority,
                       path           |-> hc.path,
                       method         |-> hc.method,
                       block_gap      |-> gap,
                       chain_type     |-> ctype])

create_chain_proxy_config(node, chain) ==
    MkProxyConfig(node, chain.health_check, chain.block_gap, chain.chain_type)

create_common_proxy_config(node, common) ==
    MkProxyConfig(node, common.health_check, 0, "")

\* the "for node in nodes { if let Some(c) = create_..(node) { push } }" loops
RECURSIVE CollectConfigs(_, _)
CollectConfigs(nodes, listener) ==
    IF nodes = <<>> THEN <<>>
    ELSE LET c == IF listener.kind = "Common"
                  THEN create_common_proxy_config(Head(nodes), listener)
                  ELSE create_chain_proxy_config(Head(nodes), listener)
         IN c \o CollectConfigs(Tail(nodes), listener)

CollectSpecialMethods(listener) ==
    [i \in DOMAIN listener.special_methods |->
        [method_name |-> listener.special_methods[i].method_name,
         nodes       |-> CollectConfigs(listener.special_methods[i].nodes, listener)]]

\* CHAIN_CHECKERS after init_chain_checker: the chain types with a validator
RegisteredChainTypes ==
    {"ethereum", "ripple", "cosmos", "cardano", "icp", "solana", "bitcoin",
     "tron", "tron_grpc", "stellar", "algorand", "ton", "polkadot"}

get_chain_checker_Always(chain_type) == TRUE

get_chain_checker(chain_type) == chain_type \in RegisteredChainTypes

----------------------------------------------------------------------------
\* Header values and method names are byte strings.
B_a == <<97>>
B_b == <<98>>
B_ab == <<97, 98>>
B_abb == <<97, 98, 98>>
B_AB == <<65, 66>>
B_bad == <<97, 200>>

Node(a, p) == [address |-> a, priority |-> p]
Route(m, ns) == [method_name |-> m, nodes |-> ns]
HealthCheckCfg(m) == [path |-> "/health", method |-> m]

ChainListener(proto, ctype, gap, nodes, routes, m) ==
    [kind |-> "Chain", name |-> "eth", protocol |-> proto, chain_type |-> ctype,
     block_gap |-> gap, nodes |-> nodes, special_methods |-> routes,
     health_check |-> HealthCheckCfg(m)]

GrpcListener(gap, nodes, routes, m) ==
    [kind |-> "Grpc", name |-> "eth", protocol |-> "grpc", chain_type |-> "ethereum",
     block_gap |-> gap, nodes |-> nodes, special_methods |-> routes,
     health_check |-> HealthCheckCfg(m)]

\* the unify listener of a configuration with the given chains
Chain(ctype, name, listen) == [chain_type |-> ctype, name |-> name, listen |-> listen]

UnifyListener(chains) ==
    [kind |-> "Unify", name |-> "unify", protocol |-> "", chain_type |-> "",
     block_gap |-> 0, nodes |-> <<>>, special_methods |-> <<>>,
     health_check |-> HealthCheckCfg("GET"), chains |-> chains]

\* UnifyProxyConfig::from_config: entry(chain_type).or_insert_with(HashMap::new)
\* .insert(chain_name, port) for every chain, in order
RECURSIVE InsertChains(_, _)
InsertChains(ports, chains) ==
    IF chains = <<>> THEN ports
    ELSE LET c == Head(chains)
             inner == IF c.chain_type \in DOMAIN ports THEN ports[c.chain_type] ELSE EmptyMap
         IN InsertChains(MapInsert(ports, c.chain_type, MapInsert(inner, c.name, c.listen)),
                         Tail(chains))

from_config(chains) == InsertChains(EmptyMap, chains)

CommonListener(proto, nodes, routes, m) ==
    [kind |-> "Common", name |-> "common1", protocol |-> proto, chain_type |-> "",
     block_gap |-> 0, nodes |-> nodes, special_methods |-> routes,
     health_check |-> HealthCheckCfg(m)]

\* The configurations the model is run on (one listener per behaviour).
Listeners ==
    { ChainListener("jsonrpc", "ethereum", 1,
        <<Node("http://a", 1), Node("https://b/v1", 1), Node("http://c:8545", 0)>>,
        <<>>, "POST"),
      ChainListener("http", "ethereum", 0,
        <<Node("http://a", 1), Node("http://c:8545", 0)>>,
        <<>>, "POST"),
      ChainListener("jsonrpc", "ethereum", 1,
        <<Node("http://a", 0), Node("https://b/v1", -1), Node("ftp://f", 5)>>,
        <<Route(B_ab, <<Node("https://d", 1)>>), Route(B_b, <<>>)>>, "POST"),
      ChainListener("http", "ethereum", 1,
        <<Node("http://a", 0), Node("https://b/v1", 0)>>,
        <<Route(B_ab, <<Node("http://a", 0), Node("https://b/v1", 1),
                        Node("http://c:8545", 1)>>),
          Route(B_ab, <<Node("http://a", 7)>>)>>, "POST"),
      ChainListener("grpc", "ethereum", 1,
        <<Node("http://a", 0), Node("http://e/x y", 0)>>,
        <<>>, "POST"),
      ChainListener("jsonrpc", "unknown-chain", 1,
        <<Node("http://a", 0), Node("https://b/v1", 1)>>,
        <<Route(B_ab, <<Node("http://a", 0)>>)>>, "GET"),
      ChainListener("jsonrpc", "ethereum", 1,
        <<Node("http://a", 0), Node("https://b/v1", 1)>>,
        <<>>, "P OST"),
      GrpcListener(1,
        <<Node("https://b/v1", 0), Node("http://a", 5)>>,
        <<Route(B_ab, <<Node("http://c:8545", 1)>>)>>, "POST"),
      CommonListener("http",
        <<Node("http://a", 1), Node("https://b/v1", 1), Node("http://c:8545", 0)>>,
        <<Route(B_ab, <<Node("https://b/v1", 0)>>)>>, "GET"),
      CommonListener("jsonrpc",
        <<Node("http://a", 0), Node("https://b/v1", 1)>>,
        <<>>, "GE T"),
      UnifyListener(<<Chain("e", "m", 1090), Chain("e", "t", 1091), Chain("s", "m", 1092)>>),
      UnifyListener(<<Chain("e", "m", 1090), Chain("e", "m", 2000)>>) }

----------------------------------------------------------------------------
VARIABLES
    app,                     \* which ProxyHttp implementation serves the listener
    protocol,                \* NodeProxyApp.protocol / CommonProxyApp.protocol
    host_configs,            \* Vec<ChainProxyConfig>
    special_method_configs,  \* Vec<SpecialMethodConfig>
    clusters,                \* key set of HashMap<String, Arc<LoadBalancer>>
    chain_ports,             \* UnifyProxyConfig.chain_ports: chain_type -> chain_name -> port
    log_request_detail,      \* the listener's log_request_detail flag
    chain_state,             \* ChainState {chain_name, block_numbers}
    node_state,              \* NodeState {node_name, health_status}
    backend_health,          \* per cluster: what the load balancer recorded of the last check
    node_height_gauge,       \* METRICS node_height_gauge, by host
    session,                 \* the Session of the request the last step served and what
                             \* upstream_peer did to it; IdleSession if it served none
    last_probe,              \* the health check the last step ran, its response and what
                             \* it returned; None if the step ran none
    chain_state_lock,        \* Mutex<ChainState>: the task holding the guard, or None
    METRICS_lock,            \* Mutex<Option<Metrics>>: the task holding the guard, or None
    checker,                 \* per cluster: where its health check task stands in check()
    handler,                 \* where the request task stands, and its locals
    last_write,              \* per host: the tip of the last update_block_number call
    ctx,                     \* ProxyCtx {request_body, response_body} of the request
    hooks,                   \* the phase of the request whose body passes the hooks, the
                             \* chunks each hook was called with, the last chunk as passed
                             \* in and as left behind
    validated,               \* the last call of a registered validator: the chain type,
                             \* the body and what the call did; None before the first
    METRICS,                 \* static METRICS: Option<Metrics>, the series of the two
                             \* metric vectors by label values
    metrics_call             \* the last call of the metrics module; None before the first

config_vars == <<app, protocol, host_configs, special_method_configs, clusters, chain_ports,
                 log_request_detail>>
ctx_vars == <<ctx, hooks>>
call_vars == <<validated, METRICS, metrics_call>>
task_vars == <<chain_state_lock, METRICS_lock, checker, handler, last_write, ctx_vars,
               call_vars>>
vars == <<app, protocol, host_configs, special_method_configs, clusters, chain_ports,
          chain_state, node_state, backend_health, node_height_gauge, session,
          last_probe, chain_state_lock, METRICS_lock, checker, handler, last_write,
          log_request_detail, ctx, hooks, validated, METRICS, metrics_call>>

IdleSession ==
    [pc |-> "idle", method |-> "", method_header |-> None, path |-> "", query |-> None,
     req_host |-> None, host |-> None, uri |-> "", outcome |-> "", error |-> "",
     selected |-> None, peer |-> None, response_written |-> None, increments |-> <<>>]

\* ProxyHttp::new_ctx
new_ctx == [request_body |-> <<>>, response_body |-> <<>>]

\* no request body has passed a hook yet
IdleHooks ==
    [phase |-> "idle", seen_request |-> <<>>, seen_response |-> <<>>,
     body_in |-> None, body_out |-> None]

\* Metrics::new: two vectors without series
Metrics_new == [node_height_gauge |-> EmptyMap, proxy_result_counter |-> EmptyMap]

\* the request task between two requests
IdleHandler ==
    [pc |-> "idle", request |-> None, todo |-> {}, block_numbers |-> EmptyMap,
     locked_tips |-> EmptyMap, response_written |-> None]

\* a health check task between two checks
IdleChecker == [pc |-> "await", tip |-> None]

\* a map with one key only
BuildClusters_FirstOnly(configs) == {configs[1].proxy_uri}

\* clusters.insert(host_config.proxy_uri.clone(), cluster.task()) for every
\* host config: the key set of the clusters map
BuildClusters(configs) == {configs[i].proxy_uri : i \in DOMAIN configs}

\* new_chain_proxy_service / new_common_proxy_service on the configs that
\* create_services_from_config collected
Init ==
    \E l \in Listeners :
        /\ app = CASE l.kind = "Chain" -> "NodeProxyApp"
                   [] l.kind = "Grpc" -> "GrpcNodeProxyApp"
                   [] l.kind = "Common" -> "CommonProxyApp"
                   [] l.kind = "Unify" -> "UnifyProxyApp"
        /\ protocol = l.protocol
        /\ host_configs = CollectConfigs(l.nodes, l)
        /\ special_method_configs = CollectSpecialMethods(l)
        /\ clusters = BuildClusters(CollectConfigs(l.nodes, l))
        /\ chain_ports = IF l.kind = "Unify" THEN from_config(l.chains) ELSE EmptyMap
        /\ log_request_detail = FALSE
        /\ ctx = new_ctx
        /\ hooks = IdleHooks
        /\ chain_state = [chain_name |-> l.name, block_numbers |-> EmptyMap]
        /\ node_state = [node_name |-> l.name, health_status |-> EmptyMap]
        /\ backend_health = [u \in {CollectConfigs(l.nodes, l)[i].proxy_uri :
                                     i \in DOMAIN CollectConfigs(l.nodes, l)} |-> "Unknown"]
        /\ node_height_gauge = EmptyMap
        /\ session = IdleSession
        /\ last_probe = None
        /\ chain_state_lock = None
        /\ METRICS_lock = None
        /\ checker = <<>>
        /\ handler = IdleHandler
        /\ last_write = EmptyMap
        /\ validated = None
        /\ METRICS = Some(Metrics_new)
        /\ metrics_call = None

----------------------------------------------------------------------------
\* Responses a probe can get.
ProbeResponses ==
    {[kind |-> "send_error", status |-> 0, json |-> FALSE, result |-> 0],
     [kind |-> "body_error", status |-> 200, json |-> FALSE, result |-> 0]}
    \cup {[kind |-> "response", status |-> s, json |-> FALSE, result |-> 0] : s \in {200, 500}}
    \cup {[kind |-> "response", status |-> s, json |-> TRUE, result |-> t] :
              s \in {200, 500}, t \in 0..MaxTip}

\* Validator: Fn(&[u8]) -> Result<u64>; the tip of a well-formed body
validator(resp) == IF resp.json THEN Some(resp.result) ELSE None

\* an update that keeps only the key it writes
update_block_number_Replace(state, host_name, block_number) ==
    [state EXCEPT !.block_numbers = MapInsert(EmptyMap, host_name, block_number)]

\* an update that never lowers a tip
update_block_number_Max(state, host_name, block_number) ==
    IF host_name \in DOMAIN state.block_numbers
       /\ state.block_numbers[host_name] > block_number
    THEN state
    ELSE [state EXCEPT !.block_numbers = MapInsert(@, host_name, block_number)]

\* ChainState::update_block_number
update_block_number(state, host_name, block_number) ==
    [state EXCEPT !.block_numbers = MapInsert(@, host_name, block_number)]

\* NodeState::update_health_status
update_health_status(state, host_name, is_healthy) ==
    [state EXCEPT !.health_status = MapInsert(@, host_name, is_healthy)]

\* a check keyed by the backend address instead of the node's URI
ProbeHost_Addr(cfg) == cfg.proxy_addr

\* the host a cluster's health check is built with:
\* ChainHealthCheck::new(chain_config.proxy_uri.as_str(), ..)
ProbeHost(cfg) == cfg.proxy_uri

\* a check that resets the node's tip to 0 when the request fails
ChainCheckResult_ResetOnError(cfg, resp) ==
    IF ~MethodFromBytesOk(cfg.method) THEN [ok |-> FALSE, tip |-> None]
    ELSE IF resp.kind \in {"send_error", "body_error"} THEN [ok |-> FALSE, tip |-> Some(0)]
    ELSE IF get_chain_checker(cfg.chain_type)
         THEN IF is_none(validator(resp)) THEN [ok |-> FALSE, tip |-> None]
              ELSE [ok |-> TRUE, tip |-> validator(resp)]
         ELSE [ok |-> TRUE, tip |-> None]

\* Result of ChainHealthCheck::check: the tip it writes (if any) and Ok/Err
ChainCheckResult(cfg, resp) ==
    IF ~MethodFromBytesOk(cfg.method) THEN [ok |-> FALSE, tip |-> None]
    ELSE IF resp.kind = "send_error" THEN [ok |-> FALSE, tip |-> None]
    ELSE IF resp.kind = "body_error" THEN [ok |-> FALSE, tip |-> None]
    ELSE IF get_chain_checker(cfg.chain_type)
         THEN IF is_none(validator(resp)) THEN [ok |-> FALSE, tip |-> None]
              ELSE [ok |-> TRUE, tip |-> validator(resp)]
         ELSE [ok |-> TRUE, tip |-> None]

\* health_threshold = 1 both ways: one check result flips the backend
HealthAfter(ok) == IF ok THEN "Healthy" ELSE "Unhealthy"

\* ChainHealthCheck::check on the cluster of host_configs[i]
ChainHealthCheck_check(i, resp) ==
    LET cfg == host_configs[i]
        res == ChainCheckResult(cfg, resp)
    IN /\ app \in {"NodeProxyApp", "GrpcNodeProxyApp"}
       /\ IF is_some(res.tip)
          THEN /\ chain_state' = update_block_number(chain_state, ProbeHost(cfg), unwrap(res.tip))
               /\ node_height_gauge' = MapInsert(node_height_gauge, ProbeHost(cfg), unwrap(res.tip))
          ELSE UNCHANGED <<chain_state, node_height_gauge>>
       /\ backend_health' = [backend_health EXCEPT ![cfg.proxy_uri] = HealthAfter(res.ok)]
       /\ last_probe' = Some([host |-> cfg.proxy_uri, resp |-> resp,
                              ok |-> res.ok, tip |-> res.tip])
       /\ UNCHANGED <<config_vars, node_state>>
       /\ UNCHANGED task_vars

\* a check that takes any response for a success
CommonCheckResult_AnyStatus(cfg, resp) ==
    IF ~MethodFromBytesOk(cfg.method) THEN FALSE
    ELSE IF resp.kind = "send_error" THEN FALSE
    ELSE TRUE

\* Result of CommonHealthCheck::check: Ok/Err, the flag it stores
CommonCheckResult(cfg, resp) ==
    IF ~MethodFromBytesOk(cfg.method) THEN FALSE
    ELSE IF resp.kind = "send_error" THEN FALSE
    ELSE IF ~(resp.status >= 200 /\ resp.status <= 299) THEN FALSE
    ELSE TRUE

\* CommonHealthCheck::check on the cluster of host_configs[i]
CommonHealthCheck_check(i, resp) ==
    LET cfg == host_configs[i]
        ok == CommonCheckResult(cfg, resp)
    IN /\ app = "CommonProxyApp"
       /\ node_state' = update_health_status(node_state, ProbeHost(cfg), ok)
       /\ backend_health' = [backend_health EXCEPT ![cfg.proxy_uri] = HealthAfter(ok)]
       /\ last_probe' = Some([host |-> cfg.proxy_uri, resp |-> resp,
                              ok |-> ok, tip |-> None])
       /\ UNCHANGED <<config_vars, chain_state, node_height_gauge>>
       /\ UNCHANGED task_vars

\* One round of a cluster's background health check.  A Session lives for
\* one request and is dropped when the request ends, so a step that serves no
\* request leaves none behind.
ChainProbe == \E i \in DOMAIN host_configs : \E resp \in ProbeResponses :
                 /\ ChainHealthCheck_check(i, resp)
                 /\ session' = IdleSession

CommonProbe == \E i \in DOMAIN host_configs : \E resp \in ProbeResponses :
                  /\ CommonHealthCheck_check(i, resp)
                  /\ session' = IdleSession

----------------------------------------------------------------------------
\* Requests the listener receives: the HTTP method, the X-Proxy-Jsonrpc-Method
\* header (absent or a byte string), the incoming path and query, the
\* incoming Host header (absent, a string, or bytes that are no string).
Request(h, p, q) ==
    [method |-> "POST", method_header |-> h, path |-> p, query |-> q,
     host |-> Some("front")]

\* stands for a Host value with a byte outside visible ASCII
BadHost == "front\\xe9"

Requests ==
    {Request(h, "/", None) : h \in {None, Some(B_ab), Some(B_a), Some(B_abb),
                                    Some(B_AB), Some(B_b), Some(B_bad)}}
    \cup {Request(None, "", None), Request(None, "/x", None),
          Request(None, "/x", Some("k=1")), Request(None, "/", Some("k=1")),
          Request(Some(B_ab), "/x", Some("k=1"))}
    \cup {[Request(None, "/", None) EXCEPT !.host = None],
          [Request(None, "/", None) EXCEPT !.host = Some(BadHost), !.method = "GET"]}

\* the request line as received
IncomingUri(r) == r.path \o (IF is_some(r.query) THEN "?" \o unwrap(r.query) ELSE "")

\* HeaderValue::to_str: Ok iff every byte is visible ASCII (32..126) or a tab
to_str_ok(bytes) == \A i \in DOMAIN bytes : bytes[i] = 9 \/ (bytes[i] >= 32 /\ bytes[i] < 127)

\* ASCII lower case of one byte
ToAsciiLower(b) == IF b >= 65 /\ b <= 90 THEN b + 32 ELSE b

\* a comparison that folds case (eq_ignore_ascii_case)
MethodNameEq_IgnoreCase(method_name, method) ==
    /\ Len(method_name) = Len(method)
    /\ \A i \in DOMAIN method : ToAsciiLower(method_name[i]) = ToAsciiLower(method[i])

\* a comparison by prefix (method.starts_with(method_name))
MethodNameEq_Prefix(method_name, method) ==
    /\ Len(method_name) <= Len(method)
    /\ SubSeq(method, 1, Len(method_name)) = method_name

\* config.method_name == method
MethodNameEq(method_name, method) == method_name = method

\* clusters_by_priority.entry(config.priority).or_insert_with(Vec::new).push(config)
\* over a Vec of configs, in order
GroupByPriority(configs) ==
    [p \in {configs[i].priority : i \in DOMAIN configs} |->
        SelectSeq(configs, LAMBDA c : c.priority = p)]

\* Outcomes of get_eligible_clusters
EligOk(cbp) == [kind |-> "ok", clusters_by_priority |-> cbp, error |-> ""]
EligErr(msg) == [kind |-> "err", clusters_by_priority |-> EmptyMap, error |-> msg]
EligPanic(msg) == [kind |-> "panic", clusters_by_priority |-> EmptyMap, error |-> msg]
EligNone == [kind |-> "none", clusters_by_priority |-> EmptyMap, error |-> ""]

\* ProxyBase::get_clusters_by_special_method ("none" is Option::None)
get_clusters_by_special_method(r) ==
    IF special_method_configs # <<>> /\ is_some(r.method_header)
    THEN IF ~to_str_ok(unwrap(r.method_header))
         THEN EligPanic("to_str().unwrap()")
         ELSE LET hit == {i \in DOMAIN special_method_configs :
                            MethodNameEq(special_method_configs[i].method_name,
                                         unwrap(r.method_header))}
              IN IF hit = {} THEN EligNone
                 ELSE EligOk(GroupByPriority(special_method_configs[SetMin(hit)].nodes))
    ELSE EligNone

\* the smallest recorded tip instead of the largest
MaxBlockNumber_Min(block_numbers) ==
    IF DOMAIN block_numbers = {} THEN 0 ELSE SetMin(MapValues(block_numbers))

\* block_numbers.values().max().unwrap_or(&0)
MaxBlockNumber(block_numbers) ==
    IF DOMAIN block_numbers = {} THEN 0 ELSE SetMax(MapValues(block_numbers))

\* a filter that forgets the gap test
ChainEligible_NoGap(config, block_numbers, max_block_number, block_range) ==
    config.proxy_uri \in DOMAIN block_numbers

\* a filter that lets a node without a recorded tip through
ChainEligible_AbsentPasses(config, block_numbers, max_block_number, block_range) ==
    \/ config.proxy_uri \notin DOMAIN block_numbers
    \/ ~(max_block_number - block_numbers[config.proxy_uri] > block_range)

\* the gap test of NodeProxyApp::get_eligible_clusters for one config
ChainEligible(config, block_numbers, max_block_number, block_range) ==
    /\ config.proxy_uri \in DOMAIN block_numbers
    /\ ~(max_block_number - block_numbers[config.proxy_uri] > block_range)

\* NodeProxyApp::get_eligible_clusters, on the copy of block_numbers taken
\* under the ChainState mutex
NodeProxyApp_get_eligible_clusters(r, block_numbers) ==
    LET sp == get_clusters_by_special_method(r) IN
    IF sp.kind # "none" THEN sp
    ELSE LET max_block_number == MaxBlockNumber(block_numbers) IN
         IF max_block_number = 0
         THEN EligErr("No block number found, maybe health check is unavailable or system is starting")
         ELSE LET block_range == host_configs[1].block_gap
                  eligible == SelectSeq(host_configs,
                                 LAMBDA c : ChainEligible(c, block_numbers,
                                                          max_block_number, block_range))
              IN IF eligible = <<>> THEN EligErr("No eligible cluster found")
                 ELSE EligOk(GroupByPriority(eligible))

\* CommonProxyApp::get_eligible_clusters
CommonProxyApp_get_eligible_clusters(r) ==
    LET sp == get_clusters_by_special_method(r) IN
    IF sp.kind # "none" THEN sp
    ELSE IF host_configs = <<>> THEN EligErr("No eligible cluster found")
         ELSE EligOk(GroupByPriority(host_configs))

\* an eligibility path that buckets every configured node
GrpcNodeProxyApp_get_eligible_clusters_All(configs) ==
    IF configs = <<>> THEN EligErr("No eligible cluster found")
    ELSE EligOk(GroupByPriority(configs))

\* GrpcNodeProxyApp::get_eligible_clusters on self.host_configs = configs
GrpcNodeProxyApp_get_eligible_clusters(configs) ==
    IF configs = <<>> THEN EligErr("No eligible cluster found")
    ELSE EligOk(GroupByPriority(<<Head(configs)>>))

get_eligible_clusters(r) ==
    CASE app = "NodeProxyApp"
             -> NodeProxyApp_get_eligible_clusters(r, chain_state.block_numbers)
      [] app = "GrpcNodeProxyApp"
             -> GrpcNodeProxyApp_get_eligible_clusters(host_configs)
      [] app = "CommonProxyApp"
             -> CommonProxyApp_get_eligible_clusters(r)

\* the bucket choice of the older revisions: keys().min()
MaxPriority_Min(clusters_by_priority) == SetMin(DOMAIN clusters_by_priority)

\* clusters_by_priority.keys().max()
MaxPriority(clusters_by_priority) == SetMax(DOMAIN clusters_by_priority)

\* values thread_rng() can hand to choose (no bucket of the configurations
\* above has more than two members)
Rng == {0, 1}

\* a tie-break that always takes the first member
SelectCluster_First(highest_priority_clusters, rnd) == highest_priority_clusters[1]

\* the selected cluster of the winning bucket: its only member, or
\* highest_priority_clusters.choose(&mut rng)
SelectCluster(highest_priority_clusters, rnd) ==
    IF Len(highest_priority_clusters) = 1 THEN highest_priority_clusters[1]
    ELSE highest_priority_clusters[(rnd % Len(highest_priority_clusters)) + 1]

\* a rewrite that drops the query for every protocol
RewriteUri_NoQuery(selected_cluster, r) ==
    IF protocol = "jsonrpc" THEN selected_cluster.proxy_uri
    ELSE IF r.path = "" \/ r.path = "/" THEN selected_cluster.proxy_uri
         ELSE selected_cluster.proxy_uri \o r.path

\* a rewrite that appends the path whatever it is
RewriteUri_AlwaysConcat(selected_cluster, r) ==
    IF protocol = "jsonrpc" THEN selected_cluster.proxy_uri
    ELSE selected_cluster.proxy_uri \o r.path
         \o (IF is_some(r.query) THEN "?" \o unwrap(r.query) ELSE "")

\* the URI string handed to req.set_uri
RewriteUri(selected_cluster, r) ==
    IF protocol = "jsonrpc" THEN selected_cluster.proxy_uri
    ELSE (IF r.path = "" \/ r.path = "/" THEN selected_cluster.proxy_uri
          ELSE selected_cluster.proxy_uri \o r.path)
         \o (IF is_some(r.query) THEN "?" \o unwrap(r.query) ELSE "")

\* new_uri.parse::<Uri>() succeeds; path and query come from a parsed Uri
UriParseOk(selected_cluster) == selected_cluster.proxy_uri \notin NotHttpUri

\* PeerOptions of HttpPeer::new and the DEFAULT_PEER_OPTIONS template
PeerOptionsNew ==
    [verify_hostname |-> TRUE, verify_cert |-> TRUE, read_timeout |-> None,
     connection_timeout |-> None, total_connection_timeout |-> None,
     write_timeout |-> None, tcp_recv_buf |-> None, max_h2_streams |-> 1,
     second_keyshare |-> TRUE, alpn |-> "H1"]

DEFAULT_PEER_OPTIONS ==
    [verify_hostname |-> TRUE, verify_cert |-> FALSE, read_timeout |-> Some(30),
     connection_timeout |-> Some(30), total_connection_timeout |-> Some(5),
     write_timeout |-> Some(5), tcp_recv_buf |-> Some(512 * 1024), max_h2_streams |-> 5,
     second_keyshare |-> TRUE, alpn |-> "H1"]

\* a peer that gets the template whatever the protocol
BuildPeer_Template(selected_cluster) ==
    [addr |-> selected_cluster.proxy_addr,
     tls |-> selected_cluster.proxy_tls,
     sni |-> selected_cluster.proxy_hostname,
     options |-> DEFAULT_PEER_OPTIONS]

\* a peer that connects to the first configured node
BuildPeer_FirstAddr(selected_cluster) ==
    [addr |-> host_configs[1].proxy_addr,
     tls |-> selected_cluster.proxy_tls,
     sni |-> selected_cluster.proxy_hostname,
     options |-> IF protocol = "grpc" THEN [PeerOptionsNew EXCEPT !.alpn = "H2"]
                 ELSE DEFAULT_PEER_OPTIONS]

\* HttpPeer::new(addr, tls, sni) and the options set on it
BuildPeer(selected_cluster) ==
    [addr |-> selected_cluster.proxy_addr,
     tls |-> selected_cluster.proxy_tls,
     sni |-> selected_cluster.proxy_hostname,
     options |-> IF protocol = "grpc" THEN [PeerOptionsNew EXCEPT !.alpn = "H2"]
                 ELSE DEFAULT_PEER_OPTIONS]

\* the session a request starts with
NewSession(r) ==
    [pc |-> "done", method |-> r.method, method_header |-> r.method_header,
     path |-> r.path, query |-> r.query, req_host |-> r.host, host |-> r.host,
     uri |-> IncomingUri(r), outcome |-> "", error |-> "", selected |-> None,
     peer |-> None, response_written |-> None, increments |-> <<>>]

\* ProxyBase::upstream_peer after get_eligible_clusters returned e: the
\* session after the call
UpstreamPeerFrom(r, rnd, e) ==
    LET s0 == NewSession(r)
    IN IF e.kind = "panic" THEN [s0 EXCEPT !.outcome = "panic", !.error = e.error]
       ELSE IF e.kind = "err" THEN [s0 EXCEPT !.outcome = "error", !.error = e.error]
       ELSE IF DOMAIN e.clusters_by_priority = {}
            THEN [s0 EXCEPT !.outcome = "panic", !.error = "keys().max().unwrap()"]
       ELSE LET highest_priority_clusters ==
                    e.clusters_by_priority[MaxPriority(e.clusters_by_priority)]
                selected_cluster == SelectCluster(highest_priority_clusters, rnd)
            IN IF selected_cluster.proxy_uri \notin clusters
               THEN [s0 EXCEPT !.outcome = "error", !.error = "Cluster not found",
                               !.selected = Some(selected_cluster)]
               ELSE IF ~UriParseOk(selected_cluster)
               THEN [s0 EXCEPT !.outcome = "panic", !.error = "parse().unwrap()",
                               !.host = Some(selected_cluster.proxy_hostname),
                               !.selected = Some(selected_cluster)]
               ELSE [s0 EXCEPT !.outcome = "peer",
                               !.host = Some(selected_cluster.proxy_hostname),
                               !.uri = RewriteUri(selected_cluster, r),
                               !.selected = Some(selected_cluster),
                               !.peer = Some(BuildPeer(selected_cluster))]

\* ProxyBase::upstream_peer: the session after the call
UpstreamPeerResult(r, rnd) == UpstreamPeerFrom(r, rnd, get_eligible_clusters(r))

\* one request through ProxyHttp::upstream_peer
upstream_peer(r, rnd) ==
    /\ app # "UnifyProxyApp"
    /\ session' = UpstreamPeerResult(r, rnd)
    /\ last_probe' = None
    /\ UNCHANGED <<config_vars, chain_state, node_state, backend_health, node_height_gauge>>
    /\ UNCHANGED task_vars

HandleRequest == \E r \in Requests : \E rnd \in Rng : upstream_peer(r, rnd)

\* What session.response_written() can be when logging runs: the upstream's
\* response once a peer was returned, the error response the proxy runtime
\* writes for a failed request, or nothing when no response header reached
\* the downstream connection.
ResponsesWritten(outcome) ==
    IF outcome = "peer" THEN {None, Some(200), Some(502)} ELSE {None, Some(500)}

\* HeaderValue::to_str on the Host header
host_to_str_ok(host) == host # BadHost

\* a code label that is always 0
ResponseCode_Zero(response_written) == 0

\* session.response_written().map_or(0, |resp| resp.status.as_u16())
ResponseCode(response_written) ==
    IF is_some(response_written) THEN unwrap(response_written) ELSE 0

\* get_chain_name()
ChainName == IF app = "CommonProxyApp" THEN node_state.node_name ELSE chain_state.chain_name

\* ProxyBase::metrics: the proxy_result_counter increments of one request
metrics(s, response_written) ==
    LET response_code == ResponseCode(response_written) IN
    IF is_some(s.host)
    THEN <<[chain |-> ChainName,
            host |-> IF host_to_str_ok(unwrap(s.host)) THEN unwrap(s.host) ELSE "unknown",
            code |-> ToString(response_code),
            method |-> s.method]>>
    ELSE <<>>

\* The session after the logging phase: the observation keeps what the
\* request was and what was counted for it.
LoggedSession(s, response_written) ==
    [IdleSession EXCEPT !.pc = "logged",
                        !.method = s.method,
                        !.req_host = s.req_host,
                        !.host = s.host,
                        !.outcome = s.outcome,
                        !.response_written = response_written,
                        !.increments = metrics(s, response_written)]

\* ProxyHttp::logging, the last phase of a request whose task did not abort
logging(response_written) ==
    /\ session.pc = "done"
    /\ session.outcome # "panic"
    /\ session' = LoggedSession(session, response_written)
    /\ last_probe' = None
    /\ UNCHANGED <<config_vars, chain_state, node_state, backend_health, node_height_gauge>>
    /\ UNCHANGED task_vars

Logging == \E response_written \in ResponsesWritten(session.outcome) :
               logging(response_written)

----------------------------------------------------------------------------
\* The unify listener.  Its request paths are sequences of characters.
RECURSIVE Str(_)
Str(chars) == IF chars = <<>> THEN "" ELSE Head(chars) \o Str(Tail(chars))

\* path.trim_start_matches('/')
RECURSIVE trim_start_matches(_)
trim_start_matches(chars) ==
    IF chars # <<>> /\ Head(chars) = "/" THEN trim_start_matches(Tail(chars)) ELSE chars

\* str::split('/'): the pieces between the slashes, at least one
RECURSIVE split(_)
split(chars) ==
    IF \A i \in DOMAIN chars : chars[i] # "/" THEN <<chars>>
    ELSE LET i == CHOOSE k \in DOMAIN chars :
                      chars[k] = "/" /\ \A j \in 1..(k - 1) : chars[j] # "/"
         IN <<SubSeq(chars, 1, i - 1)>> \o split(SubSeq(chars, i + 1, Len(chars)))

\* segments.join("/")
RECURSIVE join(_)
join(segments) ==
    IF segments = <<>> THEN <<>>
    ELSE IF Len(segments) = 1 THEN Head(segments)
    ELSE Head(segments) \o <<"/">> \o join(Tail(segments))

\* a lookup that takes any chain of the chain type
get_port_AnyName(ports, chain_type, chain_name) ==
    IF chain_type \in DOMAIN ports
    THEN Some(ports[chain_type][CHOOSE n \in DOMAIN ports[chain_type] : TRUE])
    ELSE None

\* UnifyProxyConfig::get_port
get_port(ports, chain_type, chain_name) ==
    IF chain_type \in DOMAIN ports /\ chain_name \in DOMAIN ports[chain_type]
    THEN Some(ports[chain_type][chain_name])
    ELSE None

\* a rewrite that leaves the path as it came
new_path_Unchanged(path, segments) == path

\* the path of the new URI: the segments after the second one, or the path
\* as it came when there is none
new_path(path, segments) ==
    IF Len(segments) > 2
    THEN <<"/">> \o join(SubSeq(segments, 3, Len(segments)))
    ELSE path

UnifyRequest(path, q, host) ==
    [method |-> "GET", method_header |-> None, path |-> path, query |-> q, host |-> host]

UnifyPaths ==
    { <<>>, <<"/">>, <<"/", "e">>, <<"/", "e", "/">>, <<"/", "e", "/", "m">>,
      <<"/", "e", "/", "m", "/">>, <<"/", "e", "/", "m", "/", "h">>,
      <<"/", "e", "/", "m", "/", "h", "/", "i">>, <<"/", "/", "e", "/", "m", "/", "h">>,
      <<"/", "e", "/", "t", "/", "h">>, <<"/", "s", "/", "m">>, <<"/", "s", "/", "t">>,
      <<"/", "x", "/", "m", "/", "h">>, <<"/", "m", "/", "e">> }

UnifyRequests ==
    {UnifyRequest(path, q, host) :
        path \in UnifyPaths, q \in {None, Some("k=1")}, host \in {None, Some("front")}}

\* the session a request of the unify listener starts with
NewUnifySession(r) ==
    [IdleSession EXCEPT !.pc = "demuxed", !.method = r.method, !.path = Str(r.path),
                        !.query = r.query, !.req_host = r.host, !.host = r.host,
                        !.uri = Str(r.path) \o (IF is_some(r.query)
                                                 THEN "?" \o unwrap(r.query) ELSE "")]

\* a demultiplexer that forwards the query with the new path
UnifyPeerResult_KeepQuery(r) ==
    LET s0 == NewUnifySession(r)
        segments == split(trim_start_matches(r.path))
    IN IF Len(segments) < 2
       THEN [s0 EXCEPT !.outcome = "error", !.error = "Invalid request path"]
       ELSE LET port == get_port(chain_ports, Str(segments[1]), Str(segments[2])) IN
            IF is_none(port)
            THEN [s0 EXCEPT !.outcome = "error", !.error = "No matching chain found"]
            ELSE [s0 EXCEPT !.outcome = "peer",
                            !.uri = Str(new_path(r.path, segments))
                                    \o (IF is_some(r.query) THEN "?" \o unwrap(r.query) ELSE ""),
                            !.host = Some("127.0.0.1"),
                            !.peer = Some([addr |-> "127.0.0.1:" \o ToString(unwrap(port)),
                                           tls |-> FALSE,
                                           sni |-> "127.0.0.1",
                                           options |-> PeerOptionsNew])]

\* UnifyProxyApp::upstream_peer: the session after the call.  The new path
\* is a path of a parsed Uri or "/" and pieces of one, so the Uri builds.
UnifyPeerResult(r) ==
    LET s0 == NewUnifySession(r)
        segments == split(trim_start_matches(r.path))
    IN IF Len(segments) < 2
       THEN [s0 EXCEPT !.outcome = "error", !.error = "Invalid request path"]
       ELSE LET port == get_port(chain_ports, Str(segments[1]), Str(segments[2])) IN
            IF is_none(port)
            THEN [s0 EXCEPT !.outcome = "error", !.error = "No matching chain found"]
            ELSE [s0 EXCEPT !.outcome = "peer",
                            !.uri = Str(new_path(r.path, segments)),
                            !.host = Some("127.0.0.1"),
                            !.peer = Some([addr |-> "127.0.0.1:" \o ToString(unwrap(port)),
                                           tls |-> FALSE,
                                           sni |-> "127.0.0.1",
                                           options |-> PeerOptionsNew])]

\* one request through UnifyProxyApp::upstream_peer
unify_upstream_peer(r) ==
    /\ app = "UnifyProxyApp"
    /\ session' = UnifyPeerResult(r)
    /\ last_probe' = None
    /\ UNCHANGED <<config_vars, chain_state, node_state, backend_health, node_height_gauge>>
    /\ UNCHANGED task_vars

HandleUnifyRequest == \E r \in UnifyRequests : unify_upstream_peer(r)

\* UnifyProxyApp implements no logging hook: the end of the request counts
\* nothing
unify_logging(response_written) ==
    /\ session.pc = "demuxed"
    /\ session' = [IdleSession EXCEPT !.pc = "logged",
                                      !.method = session.method,
                                      !.req_host = session.req_host,
                                      !.host = session.host,
                                      !.outcome = session.outcome,
                                      !.response_written = response_written]
    /\ last_probe' = None
    /\ UNCHANGED <<config_vars, chain_state, node_state, backend_health, node_height_gauge>>
    /\ UNCHANGED task_vars

UnifyLogging == \E response_written \in ResponsesWritten(session.outcome) :
                    unify_logging(response_written)

Next ==
    \/ ChainProbe \/ CommonProbe \/ HandleRequest \/ Logging
    \/ HandleUnifyRequest \/ UnifyLogging

Spec == Init /\ [][Next]_vars

----------------------------------------------------------------------------
(***************************************************************************)
(* Properties.  A state with session.pc = "done" is the state right after  *)
(* upstream_peer served a request: the request step leaves the tips, the   *)
(* health flags and the configuration as it read them, and every other     *)
(* step leaves IdleSession.  The definitions below restate the terms of    *)
(* the specification directly on the state and the configuration.          *)
(***************************************************************************)
Tips == chain_state.block_numbers

\* the largest recorded tip, 0 when none is recorded
TipsMax == IF DOMAIN Tips = {} THEN 0
           ELSE CHOOSE t \in {Tips[u] : u \in DOMAIN Tips} :
                    \A u \in DOMAIN Tips : Tips[u] <= t

\* indices of the routes whose method_name equals the request's header value
MatchingRoutes(r) ==
    {i \in DOMAIN special_method_configs :
        /\ r.method_header # <<>>
        /\ special_method_configs[i].method_name = r.method_header[1]}

\* the request carries a header equal to some route's method_name
HeaderMatches(r) == MatchingRoutes(r) # {}

\* the header value, if the selector looks at it, is a string
HeaderDecides(r) ==
    \/ r.method_header = <<>>
    \/ special_method_configs = <<>>
    \/ \A k \in DOMAIN r.method_header[1] :
          r.method_header[1][k] = 9
          \/ (r.method_header[1][k] >= 32 /\ r.method_header[1][k] <= 126)

SeqToSet(q) == {q[i] : i \in DOMAIN q}

\* node n lags the leader by more than its block_gap
Lags(n) == n.proxy_uri \in DOMAIN Tips /\ Tips[n.proxy_uri] + n.block_gap < TipsMax

\* the eligible set of request r: the first matching route's nodes on an
\* override; in chain mode the nodes with a tip within block_gap of the
\* leader; in common mode every configured node, which is what
\* CommonProxyApp hands to the bucketing (C10 is about that set); in gRPC
\* mode the first configured node
EligibleSet(r) ==
    IF app = "GrpcNodeProxyApp" THEN {host_configs[1]}
    ELSE IF HeaderMatches(r)
    THEN SeqToSet(special_method_configs[
             CHOOSE i \in MatchingRoutes(r) : \A j \in MatchingRoutes(r) : i <= j].nodes)
    ELSE IF app = "NodeProxyApp"
    THEN {n \in SeqToSet(host_configs) : n.proxy_uri \in DOMAIN Tips /\ ~Lags(n)}
    ELSE SeqToSet(host_configs)

\* the members of the eligible set with the maximum priority
WinningBucket(r) ==
    {n \in EligibleSet(r) : \A m \in EligibleSet(r) : m.priority <= n.priority}

\* the request the session belongs to
RequestOf(s) ==
    [Request(s.method_header, s.path, s.query) EXCEPT !.host = s.req_host,
                                                      !.method = s.method]

\* a request was just served on the normal path of a chain listener
ChainNormalDone ==
    /\ session.pc = "done"
    /\ app = "NodeProxyApp"
    /\ ~HeaderMatches(session)

\* C1: chain mode, no matching special-method header: a configured node n
\* with tips[n] + block_gap < max(tips) is never the node of the returned peer.
C1_LaggingNodeNeverReturned ==
    (ChainNormalDone /\ session.outcome = "peer")
    => \A i \in DOMAIN host_configs :
          Lags(host_configs[i])
          => /\ session.peer[1].addr # host_configs[i].proxy_addr
             /\ session.selected[1].proxy_uri # host_configs[i].proxy_uri

\* a request was served from a node while another node of the same priority,
\* block_gap >= 1, lagged by more than the gap (scenario S1)
C1_Witness ==
    /\ ChainNormalDone
    /\ session.outcome = "peer"
    /\ \E i \in DOMAIN host_configs :
          /\ Lags(host_configs[i])
          /\ host_configs[i].block_gap >= 1
          /\ host_configs[i].priority = session.selected[1].priority
          /\ host_configs[i].proxy_uri # session.selected[1].proxy_uri

\* C2: chain mode, no matching special-method header: a configured node with
\* no entry in tips is never returned, whatever its priority.
C2_NodeWithoutTipNeverReturned ==
    (ChainNormalDone /\ session.outcome = "peer")
    => \A i \in DOMAIN host_configs :
          host_configs[i].proxy_uri \notin DOMAIN Tips
          => /\ session.peer[1].addr # host_configs[i].proxy_addr
             /\ session.selected[1].proxy_uri # host_configs[i].proxy_uri

\* a request was served while a node of strictly higher priority than the
\* selected one had no recorded tip
C2_Witness ==
    /\ ChainNormalDone
    /\ session.outcome = "peer"
    /\ \E i \in DOMAIN host_configs :
          /\ host_configs[i].proxy_uri \notin DOMAIN Tips
          /\ host_configs[i].priority > session.selected[1].priority

\* the NoTipYet outcome of session s: the static error, no peer, Host and
\* URI as received
NoTipYet(s) ==
    /\ s.outcome = "error"
    /\ s.error = "No block number found, maybe health check is unavailable or system is starting"
    /\ s.peer = <<>>
    /\ s.host = RequestOf(s).host
    /\ s.uri = s.path \o (IF s.query = <<>> THEN "" ELSE "?" \o s.query[1])

\* C3 (as claimed): chain mode, tips empty or maximum tip 0: every request
\* without a matching special-method header fails with NoTipYet, gets no peer
\* and keeps its Host header and URI.
C3_ColdStartNoTipYet ==
    (ChainNormalDone /\ TipsMax = 0) => NoTipYet(session)

\* C4: whenever the selector returns a node, no node of the eligible set has
\* a strictly greater priority.
C4_MaxPriorityBucketWins ==
    (session.pc = "done" /\ session.outcome = "peer")
    => \A m \in EligibleSet(session) : m.priority <= session.selected[1].priority

\* a chain request was served from a node while an eligible node of lower
\* priority had the higher tip
C4_Witness ==
    /\ ChainNormalDone
    /\ session.outcome = "peer"
    /\ \E m \in EligibleSet(session) :
          /\ m.priority < session.selected[1].priority
          /\ Tips[m.proxy_uri] > Tips[session.selected[1].proxy_uri]

\* C5: the node the tie-break selects is a member of the winning bucket (so
\* its single member when there is one), and every member of the bucket is a
\* possible outcome of the same request.
C5_TieBreakWithinBucket ==
    (session.pc = "done" /\ session.selected # <<>>)
    => /\ session.selected[1] \in WinningBucket(session)
       /\ \A m \in WinningBucket(session) :
             \E rnd \in Rng :
                UpstreamPeerResult(RequestOf(session), rnd).selected = <<m>>

\* tips equal on three nodes of priorities 1, 1, 0 (scenario S2): the second
\* member of the two-member bucket was selected
C5_Witness ==
    /\ ChainNormalDone
    /\ session.outcome = "peer"
    /\ Len(host_configs) = 3
    /\ \A i \in DOMAIN host_configs : host_configs[i].proxy_uri \in DOMAIN Tips
    /\ \A i, j \in DOMAIN host_configs :
          Tips[host_configs[i].proxy_uri] = Tips[host_configs[j].proxy_uri]
    /\ Cardinality(WinningBucket(session)) = 2
    /\ session.selected[1] = host_configs[2]
    /\ host_configs[3] \notin WinningBucket(session)

\* C6 (as claimed): on a chain listener a request whose header equals a
\* route's method_name gets a peer for a node of the top-priority bucket of
\* that route's pool, whatever the tips and whether or not the node is one of
\* the main configured nodes.
C6_SpecialMethodOverride ==
    (session.pc = "done" /\ app = "NodeProxyApp" /\ HeaderMatches(session)
     /\ EligibleSet(session) # {})
    => /\ session.outcome = "peer"
       /\ \E n \in WinningBucket(session) :
             /\ session.peer[1].addr = n.proxy_addr
             /\ session.host = <<n.proxy_hostname>>

\* C7: the override is taken if and only if the listener has a route, the
\* header is present and its value equals some route's method_name, and it
\* hands over the nodes of the first such route; any other string value, or
\* a header on a listener without routes, leaves the request on the normal
\* eligibility path (NoTipYet on a cold chain listener, a configured node
\* otherwise).
C7_ExactMatch ==
    (session.pc = "done" /\ app \in {"NodeProxyApp", "CommonProxyApp"})
    => LET sp == get_clusters_by_special_method(RequestOf(session)) IN
       /\ sp.kind = "ok"
             <=> (special_method_configs # <<>> /\ session.method_header # <<>>
                  /\ HeaderMatches(session))
       /\ sp.kind = "ok"
             => UNION {SeqToSet(sp.clusters_by_priority[p]) :
                          p \in DOMAIN sp.clusters_by_priority} = EligibleSet(session)
       /\ (HeaderDecides(session) /\ ~HeaderMatches(session))
             => /\ sp.kind = "none"
                /\ (app = "NodeProxyApp" /\ TipsMax = 0) => NoTipYet(session)
                /\ session.selected # <<>>
                      => session.selected[1] \in SeqToSet(host_configs)

\* on a cold chain listener with a route "ab" a request with the header
\* "AB" ended in NoTipYet
C7_Witness ==
    /\ session.pc = "done"
    /\ app = "NodeProxyApp"
    /\ \E i \in DOMAIN special_method_configs : special_method_configs[i].method_name = B_ab
    /\ session.method_header = <<B_AB>>
    /\ NoTipYet(session)

\* C8 (as claimed): upstream_peer ends with a peer or an error value, never
\* with a panic.
C8_SelectionTotal ==
    session.pc = "done" => session.outcome \in {"peer", "error"}

\* C9 (as claimed): chain mode: a node whose last probe failed is not
\* returned until a later probe of it succeeds.
C9_FailedProbeRemovesNode ==
    (ChainNormalDone /\ session.outcome = "peer")
    => backend_health[session.selected[1].proxy_uri] # "Unhealthy"

\* C10 (as claimed): common mode, no matching special-method header: the
\* selected node has NodeState.healthy = true.
C10_CommonSelectsHealthyOnly ==
    (session.pc = "done" /\ app = "CommonProxyApp" /\ ~HeaderMatches(session)
     /\ session.outcome = "peer")
    => /\ session.selected[1].proxy_uri \in DOMAIN node_state.health_status
       /\ node_state.health_status[session.selected[1].proxy_uri] = TRUE

----------------------------------------------------------------------------
(***************************************************************************)
(* Health checks.  A state with last_probe # None is the state right after *)
(* one check of the cluster of last_probe[1].host.                         *)
(***************************************************************************)
\* the check of the last step got a response with a status outside 200..299
ProbeGotNon2xx ==
    /\ last_probe # <<>>
    /\ last_probe[1].resp.kind = "response"
    /\ ~(last_probe[1].resp.status >= 200 /\ last_probe[1].resp.status <= 299)

\* the node configurations of the listener that share a health check method
\* the HTTP client accepts
ProbeWasSent == \A i \in DOMAIN host_configs : host_configs[i].method \in {"GET", "POST"}

\* the listener's chain type has a validator in the registry
ChainTypeRegistered ==
    \A i \in DOMAIN host_configs : host_configs[i].chain_type \in RegisteredChainTypes

\* C11 (as claimed): a check whose response has a non-2xx status is reported
\* as failed and, in chain mode, writes no tip, with or without a validator.
C11_Non2xxProbeFails ==
    ProbeGotNon2xx => (~last_probe[1].ok /\ last_probe[1].tip = <<>>)

\* the check of the last step was a successful validated chain check
ValidatedSuccess(lp) ==
    /\ lp # <<>>
    /\ app = "NodeProxyApp"
    /\ ChainTypeRegistered
    /\ lp[1].ok
    /\ lp[1].resp.kind = "response"
    /\ lp[1].resp.json

\* C12: a successful validated chain check of node n whose validator
\* returns t leaves tips[n] = t and node_height_gauge[n] = t, and leaves the
\* tip of every other node and chain_name as they were.
C12_ProbeWritesOneKey ==
    [][ ValidatedSuccess(last_probe')
        => LET n == last_probe'[1].host
               t == last_probe'[1].resp.result
           IN /\ n \in DOMAIN chain_state'.block_numbers
              /\ chain_state'.block_numbers[n] = t
              /\ n \in DOMAIN node_height_gauge'
              /\ node_height_gauge'[n] = t
              /\ DOMAIN chain_state'.block_numbers = DOMAIN chain_state.block_numbers \cup {n}
              /\ \A m \in DOMAIN chain_state.block_numbers \ {n} :
                    chain_state'.block_numbers[m] = chain_state.block_numbers[m]
              /\ chain_state'.chain_name = chain_state.chain_name ]_vars

\* a validated check of one node has just written t while another node keeps
\* a different tip
C12_Witness ==
    /\ ValidatedSuccess(last_probe)
    /\ Tips[last_probe[1].host] = last_probe[1].resp.result
    /\ \E m \in DOMAIN Tips : m # last_probe[1].host /\ Tips[m] # Tips[last_probe[1].host]

ConfiguredUris == {host_configs[i].proxy_uri : i \in DOMAIN host_configs}

\* C14: the keys of ChainState.tips are proxy_uri values of configured nodes.
C14_TipKeysAreConfiguredUris ==
    DOMAIN Tips \subseteq ConfiguredUris

\* every configured node of a listener with several nodes has a tip, and a
\* request has just been served
C14_Witness ==
    /\ session.pc = "done"
    /\ Cardinality(ConfiguredUris) >= 2
    /\ DOMAIN Tips = ConfiguredUris

\* C15: on a chain listener the keys of the clusters map are the proxy_uri
\* values of the configured nodes, in every reachable state, and a request
\* on the normal path never ends in "Cluster not found".
C15_ClusterKeysAreConfiguredUris ==
    app = "NodeProxyApp"
    => /\ clusters = ConfiguredUris
       /\ ChainNormalDone => session.error # "Cluster not found"

\* a request was served from a node of the main pool other than the first
C15_Witness ==
    /\ ChainNormalDone
    /\ session.outcome = "peer"
    /\ Len(host_configs) >= 2
    /\ session.selected[1] = host_configs[2]
    /\ session.selected[1].proxy_uri \in clusters

(***************************************************************************)
(* Metrics.  A state with session.pc = "logged" is the state right after   *)
(* the logging phase of a request.                                         *)
(***************************************************************************)

\* the host label a Host header stands for
HostLabel(host) ==
    IF is_none(host) \/ ~host_to_str_ok(unwrap(host)) THEN "unknown" ELSE unwrap(host)

\* C16: every completed request, succeeded or failed, causes exactly one
\* proxy_result_counter increment, labelled with the chain, the Host header
\* value ("unknown" when there is none), the status code and the method.
C16_ExactlyOneIncrement ==
    session.pc = "logged"
    => /\ Len(session.increments) = 1
       /\ session.increments[1] =
              [chain  |-> ChainName,
               host   |-> HostLabel(session.host),
               code   |-> ToString(ResponseCode(session.response_written)),
               method |-> session.method]

Errored(s) == s.pc = "logged" /\ s.outcome = "error"

\* C17 (as stated): a request that terminates with an error is counted with
\* code 0, any other request with the status written downstream.
C17_ErrorsSetCodeZero ==
    (session.pc = "logged" /\ session.increments # <<>>)
    => IF Errored(session)
       THEN session.increments[1].code = "0"
       ELSE is_some(session.response_written)
            => session.increments[1].code = ToString(unwrap(session.response_written))

\* C17: the code label is the status code of the response written
\* downstream, whether or not the request ended with an error, and it is 0
\* exactly when no response was written downstream.
C17_CodeIsWrittenStatus ==
    (session.pc = "logged" /\ session.increments # <<>>)
    => /\ is_some(session.response_written)
          => session.increments[1].code = ToString(unwrap(session.response_written))
       /\ is_none(session.response_written) <=> session.increments[1].code = "0"

C17_Witness ==
    /\ Errored(session)
    /\ session.increments # <<>>
    /\ session.response_written = Some(500)
    /\ session.increments[1].code = "500"

----------------------------------------------------------------------------
(***************************************************************************)
(* Tasks and locks.  The health check of every cluster and the request     *)
(* task run concurrently; SpecConc follows each of them from one lock      *)
(* operation to the next.                                                  *)
(***************************************************************************)

CheckerId(i) == Some(<<"checker", i>>)
HandlerId == Some(<<"handler", 0>>)

\* a lock that never makes a task wait
MutexFree_Always(mutex) == TRUE

\* Mutex::lock returns once no other guard is alive
MutexFree(mutex) == mutex = None

\* The listener of the concurrent runs: two nodes of one priority.
ConcListener ==
    ChainListener("jsonrpc", "ethereum", 1,
                  <<Node("http://a", 1), Node("https://b/v1", 1)>>, <<>>, "POST")

\* The requests of the concurrent runs: with and without a Host header.
ConcRequests ==
    {Request(None, "/", None), [Request(None, "/", None) EXCEPT !.host = None]}

InitConc ==
    /\ app = "NodeProxyApp"
    /\ protocol = ConcListener.protocol
    /\ host_configs = CollectConfigs(ConcListener.nodes, ConcListener)
    /\ special_method_configs = CollectSpecialMethods(ConcListener)
    /\ clusters = BuildClusters(CollectConfigs(ConcListener.nodes, ConcListener))
    /\ chain_ports = EmptyMap
    /\ log_request_detail = FALSE
    /\ ctx = new_ctx
    /\ hooks = IdleHooks
    /\ chain_state = [chain_name |-> ConcListener.name, block_numbers |-> EmptyMap]
    /\ node_state = [node_name |-> ConcListener.name, health_status |-> EmptyMap]
    /\ backend_health = [u \in BuildClusters(CollectConfigs(ConcListener.nodes, ConcListener))
                           |-> "Unknown"]
    /\ node_height_gauge = EmptyMap
    /\ session = IdleSession
    /\ last_probe = None
    /\ chain_state_lock = None
    /\ METRICS_lock = None
    /\ checker = [i \in DOMAIN CollectConfigs(ConcListener.nodes, ConcListener) |-> IdleChecker]
    /\ handler = IdleHandler
    /\ last_write = EmptyMap
    /\ validated = None
    /\ METRICS = Some(Metrics_new)
    /\ metrics_call = None

observed_vars == <<config_vars, node_state, backend_health, last_probe, ctx_vars,
                   call_vars>>

\* ChainHealthCheck::check up to the first lock: the request is sent, the
\* response awaited and validated; only a validated tip goes on to the lock
check_await(i, resp) ==
    LET res == ChainCheckResult(host_configs[i], resp) IN
    /\ checker[i].pc = "await"
    /\ checker' = IF is_some(res.tip)
                  THEN [checker EXCEPT ![i] = [pc |-> "lock", tip |-> res.tip]]
                  ELSE checker
    /\ UNCHANGED <<observed_vars, chain_state, node_height_gauge, session,
                   chain_state_lock, METRICS_lock, handler, last_write>>

\* let mut state = self.chain_state.lock().unwrap();
check_lock(i) ==
    /\ checker[i].pc = "lock"
    /\ MutexFree(chain_state_lock)
    /\ chain_state_lock' = CheckerId(i)
    /\ checker' = [checker EXCEPT ![i].pc = "update"]
    /\ UNCHANGED <<observed_vars, chain_state, node_height_gauge, session,
                   METRICS_lock, handler, last_write>>

\* an update that drops the ChainState guard before the gauge is set
check_update_Unlock(i) ==
    /\ checker[i].pc = "update"
    /\ chain_state' = update_block_number(chain_state, ProbeHost(host_configs[i]),
                                          unwrap(checker[i].tip))
    /\ last_write' = MapInsert(last_write, ProbeHost(host_configs[i]), unwrap(checker[i].tip))
    /\ chain_state_lock' = None
    /\ checker' = [checker EXCEPT ![i].pc = "metrics_lock"]
    /\ UNCHANGED <<observed_vars, node_height_gauge, session, METRICS_lock, handler>>

\* state.update_block_number(&self.host, chain_state_result);
check_update(i) ==
    /\ checker[i].pc = "update"
    /\ chain_state' = update_block_number(chain_state, ProbeHost(host_configs[i]),
                                          unwrap(checker[i].tip))
    /\ last_write' = MapInsert(last_write, ProbeHost(host_configs[i]), unwrap(checker[i].tip))
    /\ checker' = [checker EXCEPT ![i].pc = "metrics_lock"]
    /\ UNCHANGED <<observed_vars, node_height_gauge, session,
                   chain_state_lock, METRICS_lock, handler>>

\* set_node_height_gauge: let metrics_lock = METRICS.lock().unwrap();
check_metrics_lock(i) ==
    /\ checker[i].pc = "metrics_lock"
    /\ MutexFree(METRICS_lock)
    /\ METRICS_lock' = CheckerId(i)
    /\ checker' = [checker EXCEPT ![i].pc = "gauge"]
    /\ UNCHANGED <<observed_vars, chain_state, node_height_gauge, session,
                   chain_state_lock, handler, last_write>>

\* set_node_height_gauge: the gauge is set and the METRICS guard dropped
check_gauge(i) ==
    /\ checker[i].pc = "gauge"
    /\ node_height_gauge' = MapInsert(node_height_gauge, ProbeHost(host_configs[i]),
                                      unwrap(checker[i].tip))
    /\ METRICS_lock' = None
    /\ checker' = [checker EXCEPT ![i].pc = "unlock"]
    /\ UNCHANGED <<observed_vars, chain_state, session,
                   chain_state_lock, handler, last_write>>

\* a check that returns without dropping the ChainState guard
check_unlock_Leak(i) ==
    /\ checker[i].pc = "unlock"
    /\ checker' = [checker EXCEPT ![i] = IdleChecker]
    /\ UNCHANGED <<observed_vars, chain_state, node_height_gauge, session,
                   chain_state_lock, METRICS_lock, handler, last_write>>

\* the end of the block: the ChainState guard is dropped, check returns
check_unlock(i) ==
    /\ checker[i].pc = "unlock"
    /\ chain_state_lock' = None
    /\ checker' = [checker EXCEPT ![i] = IdleChecker]
    /\ UNCHANGED <<observed_vars, chain_state, node_height_gauge, session,
                   METRICS_lock, handler, last_write>>

\* a request arrives: get_eligible_clusters finds no special method and goes
\* on to the lock
request_start(r) ==
    /\ handler.pc = "idle"
    /\ get_clusters_by_special_method(r).kind = "none"
    /\ handler' = [IdleHandler EXCEPT !.pc = "lock", !.request = Some(r)]
    /\ session' = IdleSession
    /\ UNCHANGED <<observed_vars, chain_state, node_height_gauge,
                   chain_state_lock, METRICS_lock, checker, last_write>>

\* let state = self.chain_state.lock().unwrap();
request_lock ==
    /\ handler.pc = "lock"
    /\ MutexFree(chain_state_lock)
    /\ chain_state_lock' = HandlerId
    /\ handler' = [handler EXCEPT !.pc = "clone",
                                  !.todo = DOMAIN chain_state.block_numbers,
                                  !.locked_tips = chain_state.block_numbers]
    /\ UNCHANGED <<observed_vars, chain_state, node_height_gauge, session,
                   METRICS_lock, checker, last_write>>

\* state.get_block_numbers().clone(), one entry of the map at a time
request_clone(k) ==
    /\ handler.pc = "clone"
    /\ k \in handler.todo
    /\ handler' = [handler EXCEPT
                      !.todo = @ \ {k},
                      !.block_numbers =
                          IF k \in DOMAIN chain_state.block_numbers
                          THEN MapInsert(@, k, chain_state.block_numbers[k])
                          ELSE @]
    /\ UNCHANGED <<observed_vars, chain_state, node_height_gauge, session,
                   chain_state_lock, METRICS_lock, checker, last_write>>

\* the end of the block: the copy is complete, the ChainState guard is dropped
request_unlock ==
    /\ handler.pc = "clone"
    /\ handler.todo = {}
    /\ chain_state_lock' = None
    /\ handler' = [handler EXCEPT !.pc = "select"]
    /\ UNCHANGED <<observed_vars, chain_state, node_height_gauge, session,
                   METRICS_lock, checker, last_write>>

\* the rest of get_eligible_clusters and of upstream_peer, on the copy; a
\* panic ends the task, otherwise the request goes on to its response
request_select(rnd) ==
    LET r == unwrap(handler.request)
        s == UpstreamPeerFrom(r, rnd,
                 NodeProxyApp_get_eligible_clusters(r, handler.block_numbers))
    IN /\ handler.pc = "select"
       /\ session' = s
       /\ handler' = IF s.outcome = "panic" THEN IdleHandler
                     ELSE [handler EXCEPT !.pc = "respond"]
       /\ UNCHANGED <<observed_vars, chain_state, node_height_gauge,
                      chain_state_lock, METRICS_lock, checker, last_write>>

\* logging, ProxyBase::metrics without a Host header: nothing is counted
request_not_counted(response_written) ==
    /\ handler.pc = "respond"
    /\ is_none(session.host)
    /\ session' = LoggedSession(session, response_written)
    /\ handler' = IdleHandler
    /\ UNCHANGED <<observed_vars, chain_state, node_height_gauge,
                   chain_state_lock, METRICS_lock, checker, last_write>>

\* logging, ProxyBase::metrics with a Host header, inc_proxy_result_counter:
\* let metrics_lock = METRICS.lock().unwrap();
request_metrics_lock(response_written) ==
    /\ handler.pc = "respond"
    /\ is_some(session.host)
    /\ MutexFree(METRICS_lock)
    /\ METRICS_lock' = HandlerId
    /\ handler' = [IdleHandler EXCEPT !.pc = "inc", !.request = handler.request,
                                      !.response_written = response_written]
    /\ UNCHANGED <<observed_vars, chain_state, node_height_gauge, session,
                   chain_state_lock, checker, last_write>>

\* inc_proxy_result_counter: the counter is incremented, the METRICS guard
\* dropped, the request is over
request_inc ==
    /\ handler.pc = "inc"
    /\ session' = LoggedSession(session, handler.response_written)
    /\ METRICS_lock' = None
    /\ handler' = IdleHandler
    /\ UNCHANGED <<observed_vars, chain_state, node_height_gauge,
                   chain_state_lock, checker, last_write>>

CheckAwait == \E i \in DOMAIN checker : \E resp \in ProbeResponses : check_await(i, resp)
CheckLock == \E i \in DOMAIN checker : check_lock(i)
CheckUpdate == \E i \in DOMAIN checker : check_update(i)
CheckMetricsLock == \E i \in DOMAIN checker : check_metrics_lock(i)
CheckGauge == \E i \in DOMAIN checker : check_gauge(i)
CheckUnlock == \E i \in DOMAIN checker : check_unlock(i)
RequestStart == \E r \in ConcRequests : request_start(r)
RequestClone == \E k \in handler.todo : request_clone(k)
RequestSelect == \E rnd \in Rng : request_select(rnd)
RequestNotCounted ==
    \E response_written \in ResponsesWritten(session.outcome) :
        request_not_counted(response_written)
RequestMetricsLock ==
    \E response_written \in ResponsesWritten(session.outcome) :
        request_metrics_lock(response_written)

NextConc ==
    \/ CheckAwait \/ CheckLock \/ CheckUpdate \/ CheckMetricsLock \/ CheckGauge
    \/ CheckUnlock
    \/ RequestStart \/ request_lock \/ RequestClone \/ request_unlock
    \/ RequestSelect \/ RequestNotCounted \/ RequestMetricsLock \/ request_inc

SpecConc == InitConc /\ [][NextConc]_vars

----------------------------------------------------------------------------
(***************************************************************************)
(* Body capture.  SpecBody follows the body chunks of one request after    *)
(* the other through the hooks of a chain listener.                        *)
(***************************************************************************)

\* chunks per hook and request
MaxChunks == 2

\* what a hook is called with: no chunk, an empty chunk, one or two bytes
Chunks == {None, Some(<<>>), Some(B_a), Some(B_ab)}

InitBody ==
    /\ app = "NodeProxyApp"
    /\ protocol = ConcListener.protocol
    /\ host_configs = CollectConfigs(ConcListener.nodes, ConcListener)
    /\ special_method_configs = CollectSpecialMethods(ConcListener)
    /\ clusters = BuildClusters(CollectConfigs(ConcListener.nodes, ConcListener))
    /\ chain_ports = EmptyMap
    /\ log_request_detail \in BOOLEAN
    /\ chain_state = [chain_name |-> ConcListener.name, block_numbers |-> EmptyMap]
    /\ node_state = [node_name |-> ConcListener.name, health_status |-> EmptyMap]
    /\ backend_health = [u \in BuildClusters(CollectConfigs(ConcListener.nodes, ConcListener))
                           |-> "Unknown"]
    /\ node_height_gauge = EmptyMap
    /\ session = IdleSession
    /\ last_probe = None
    /\ chain_state_lock = None
    /\ METRICS_lock = None
    /\ checker = <<>>
    /\ handler = IdleHandler
    /\ last_write = EmptyMap
    /\ validated = None
    /\ METRICS = Some(Metrics_new)
    /\ metrics_call = None
    /\ ctx = new_ctx
    /\ hooks = IdleHooks

not_body_vars ==
    <<config_vars, chain_state, node_state, backend_health, node_height_gauge, session,
      last_probe, chain_state_lock, METRICS_lock, checker, handler, last_write,
      call_vars>>

\* proxy_utils::request_body_filter: the chunk and the context after the call
proxy_utils_request_body_filter(body, c) ==
    [body |-> body,
     ctx  |-> IF is_some(body) THEN [c EXCEPT !.request_body = @ \o unwrap(body)] ELSE c]

\* proxy_utils::upstream_response_body_filter
proxy_utils_upstream_response_body_filter(body, c) ==
    [body |-> body,
     ctx  |-> IF is_some(body) THEN [c EXCEPT !.response_body = @ \o unwrap(body)] ELSE c]

\* a hook that captures whatever the flag says
request_body_filter_Always(body, c) == proxy_utils_request_body_filter(body, c)

\* NodeProxyApp::request_body_filter
request_body_filter(body, c) ==
    IF log_request_detail THEN proxy_utils_request_body_filter(body, c)
    ELSE [body |-> body, ctx |-> c]

\* NodeProxyApp::upstream_response_body_filter
upstream_response_body_filter(body, c) ==
    IF log_request_detail THEN proxy_utils_upstream_response_body_filter(body, c)
    ELSE [body |-> body, ctx |-> c]

\* a request starts: new_ctx
BodyNewRequest ==
    /\ hooks.phase \in {"idle", "logged"}
    /\ ctx' = new_ctx
    /\ hooks' = [IdleHooks EXCEPT !.phase = "open"]
    /\ UNCHANGED not_body_vars

\* a chunk of the request body passes request_body_filter
BodyRequestChunk ==
    \E body \in Chunks :
        LET after == request_body_filter(body, ctx) IN
        /\ hooks.phase = "open"
        /\ Len(hooks.seen_request) < MaxChunks
        /\ ctx' = after.ctx
        /\ hooks' = [hooks EXCEPT !.seen_request = Append(@, body),
                                  !.body_in = body, !.body_out = after.body]
        /\ UNCHANGED not_body_vars

\* a chunk of the upstream response body passes upstream_response_body_filter
BodyResponseChunk ==
    \E body \in Chunks :
        LET after == upstream_response_body_filter(body, ctx) IN
        /\ hooks.phase = "open"
        /\ Len(hooks.seen_response) < MaxChunks
        /\ ctx' = after.ctx
        /\ hooks' = [hooks EXCEPT !.seen_response = Append(@, body),
                                  !.body_in = body, !.body_out = after.body]
        /\ UNCHANGED not_body_vars

\* logging: proxy_utils::logging reads the buffers when the flag is set
BodyLogging ==
    /\ hooks.phase = "open"
    /\ hooks' = [hooks EXCEPT !.phase = "logged"]
    /\ UNCHANGED <<ctx, not_body_vars>>

NextBody == BodyNewRequest \/ BodyRequestChunk \/ BodyResponseChunk \/ BodyLogging

SpecBody == InitBody /\ [][NextBody]_vars

----------------------------------------------------------------------------
\* what the selection makes of block numbers bn for the request in hand
OutcomesOn(bn) ==
    {UpstreamPeerFrom(unwrap(handler.request), rnd,
         NodeProxyApp_get_eligible_clusters(unwrap(handler.request), bn)) : rnd \in Rng}

\* C18: the selection works on one copy of the tips taken under the
\* ChainState mutex.  While the copy is made the tips are those of the
\* instant the lock was taken and every copied entry equals them; the
\* finished copy is the tips of that instant, and the outcome of the request
\* is computed from it whatever the probes have written since.
C18_SnapshotConsistency ==
    /\ handler.pc = "clone"
       => /\ chain_state_lock = HandlerId
          /\ chain_state.block_numbers = handler.locked_tips
          /\ DOMAIN handler.block_numbers = DOMAIN handler.locked_tips \ handler.todo
          /\ \A k \in DOMAIN handler.block_numbers :
                 handler.block_numbers[k] = handler.locked_tips[k]
    /\ handler.pc \in {"select", "respond"}
       => handler.block_numbers = handler.locked_tips
    /\ handler.pc = "respond" => session \in OutcomesOn(handler.locked_tips)

\* a probe wrote after the copy and the tips of now would select otherwise
C18_Witness ==
    /\ handler.pc = "respond"
    /\ chain_state.block_numbers # handler.locked_tips
    /\ session.outcome = "peer"
    /\ session \notin OutcomesOn(chain_state.block_numbers)

\* C19: the tip of a node is the one its last update wrote, also when that
\* is lower than the one before, and the updates of other nodes are kept.
C19_LastWriterWins ==
    /\ DOMAIN chain_state.block_numbers = DOMAIN last_write
    /\ \A n \in DOMAIN last_write : chain_state.block_numbers[n] = last_write[n]

\* the update of one node has just replaced a higher tip by a lower one (the
\* gauge still shows the higher one) and the other node's tip is in the map
C19_Witness ==
    \E i \in DOMAIN checker :
        LET n == ProbeHost(host_configs[i]) IN
        /\ checker[i].pc = "metrics_lock"
        /\ n \in DOMAIN node_height_gauge
        /\ chain_state.block_numbers[n] = unwrap(checker[i].tip)
        /\ chain_state.block_numbers[n] < node_height_gauge[n]
        /\ \E m \in DOMAIN chain_state.block_numbers :
               m # n /\ chain_state.block_numbers[m] > 0

CheckerWaits(i) ==
    \/ checker[i].pc = "lock" /\ ~MutexFree(chain_state_lock)
    \/ checker[i].pc = "metrics_lock" /\ ~MutexFree(METRICS_lock)

HandlerWaits ==
    \/ handler.pc = "lock" /\ ~MutexFree(chain_state_lock)
    \/ handler.pc = "respond" /\ is_some(session.host) /\ ~MutexFree(METRICS_lock)

Waits(id) ==
    IF id = HandlerId THEN HandlerWaits
    ELSE \E i \in DOMAIN checker : id = CheckerId(i) /\ CheckerWaits(i)

\* C20: the ChainState guard is alive only between a lock and the end of its
\* block, never while its task awaits; METRICS is taken inside ChainState by
\* a health check only, and alone by the request task; whoever holds METRICS
\* waits for nothing, and whoever holds ChainState waits at most for METRICS:
\* no cycle of waiting tasks exists.
C20_LockDiscipline ==
    /\ \A i \in DOMAIN checker :
          /\ chain_state_lock = CheckerId(i)
             <=> checker[i].pc \in {"update", "metrics_lock", "gauge", "unlock"}
          /\ METRICS_lock = CheckerId(i) <=> checker[i].pc = "gauge"
    /\ chain_state_lock = HandlerId <=> handler.pc = "clone"
    /\ METRICS_lock = HandlerId <=> handler.pc = "inc"
    /\ METRICS_lock # None => ~Waits(METRICS_lock)
    /\ chain_state_lock # None
       => \/ ~Waits(chain_state_lock)
          \/ METRICS_lock # None /\ METRICS_lock # chain_state_lock

\* a health check holds ChainState and METRICS, the other health check and
\* the request task wait for ChainState
C20_Witness ==
    /\ handler.pc = "lock"
    /\ \E i, j \in DOMAIN checker :
          /\ checker[i].pc = "gauge"
          /\ chain_state_lock = CheckerId(i)
          /\ METRICS_lock = CheckerId(i)
          /\ checker[j].pc = "lock"

----------------------------------------------------------------------------
(***************************************************************************)
(* The peer and the rewritten request.                                     *)
(***************************************************************************)

PeerReturned == session.pc = "done" /\ session.outcome = "peer"

\* C21: a peer returned by a listener of protocol grpc has ALPN H2, a peer
\* returned by a listener of any other protocol has ALPN H1.
C21_AlpnByProtocol ==
    PeerReturned
    => session.peer[1].options.alpn = IF protocol = "grpc" THEN "H2" ELSE "H1"

C21_Witness ==
    /\ PeerReturned
    /\ protocol = "grpc"
    /\ session.peer[1].options.alpn = "H2"

\* C22: every peer carries the fixed peer-options template; on a grpc
\* listener its options are the template in every field except ALPN, H2.
C22_PeerOptionsTemplate ==
    PeerReturned
    => session.peer[1].options =
           IF protocol = "grpc" THEN [DEFAULT_PEER_OPTIONS EXCEPT !.alpn = "H2"]
           ELSE DEFAULT_PEER_OPTIONS

\* the query the request came with, as it is appended to a URI
QuerySuffix(s) == IF is_some(s.query) THEN "?" \o unwrap(s.query) ELSE ""

\* C23: for protocol http or grpc the rewritten URI ends with "?" and the
\* unchanged incoming query when the request has one and has no added query
\* otherwise; for protocol jsonrpc the query is discarded and the URI is
\* exactly proxy_uri.
C23_QueryHandling ==
    PeerReturned
    => LET proxy_uri == session.selected[1].proxy_uri IN
       IF protocol = "jsonrpc" THEN session.uri = proxy_uri
       ELSE IF is_some(session.query)
            THEN \E base \in {proxy_uri, proxy_uri \o session.path} :
                     session.uri = base \o "?" \o unwrap(session.query)
            ELSE session.uri \in {proxy_uri, proxy_uri \o session.path}

C23_Witness ==
    /\ PeerReturned
    /\ protocol = "http"
    /\ session.query = Some("k=1")
    /\ session.uri = session.selected[1].proxy_uri \o "/x?k=1"

\* C24: for protocol http or grpc the rewritten URI without the re-appended
\* query is proxy_uri when the incoming path is empty or "/", and proxy_uri
\* followed by the incoming path otherwise.
C24_PathComposition ==
    (PeerReturned /\ protocol # "jsonrpc")
    => LET proxy_uri == session.selected[1].proxy_uri IN
       session.uri =
           (IF session.path \in {"", "/"} THEN proxy_uri ELSE proxy_uri \o session.path)
           \o QuerySuffix(session)

C24_Witness ==
    /\ PeerReturned
    /\ protocol # "jsonrpc"
    /\ session.path = "/"
    /\ session.query = Some("k=1")
    /\ session.uri = session.selected[1].proxy_uri \o "?k=1"

\* every node of the configuration: the main pool and the route pools
ConfiguredNodes ==
    SeqToSet(host_configs)
    \cup UNION {SeqToSet(special_method_configs[i].nodes) : i \in DOMAIN special_method_configs}

\* the peer, the Host header and the URI of session s are those of node n
AllFromNode(s, n) ==
    /\ s.peer[1].addr = n.proxy_addr
    /\ s.peer[1].tls = n.proxy_tls
    /\ s.peer[1].sni = n.proxy_hostname
    /\ s.host = Some(n.proxy_hostname)
    /\ s.uri \in {n.proxy_uri \o p \o q : p \in {"", s.path}, q \in {"", QuerySuffix(s)}}

\* C25: the peer's address, TLS flag and SNI, the rewritten Host header and
\* the proxy_uri of the rewritten URI all come from the selected node.
C25_SingleNodeConsistency ==
    PeerReturned
    => /\ session.selected[1] \in ConfiguredNodes
       /\ AllFromNode(session, session.selected[1])

\* the selected node is not the first one, and no other node fits the
\* peer, the Host header and the URI
C25_Witness ==
    /\ PeerReturned
    /\ session.selected[1] # host_configs[1]
    /\ \A n \in ConfiguredNodes :
           AllFromNode(session, n) => n.proxy_uri = session.selected[1].proxy_uri

\* C26: a GrpcNodeProxyApp listener with at least one configured node selects
\* its first configured node for every request, whatever the tips, the
\* health of the node, the priorities of the other nodes and the
\* X-Proxy-Jsonrpc-Method header; with no configured node its eligibility
\* path fails with "No eligible cluster found".
C26_GrpcFirstNode ==
    /\ (session.pc = "done" /\ app = "GrpcNodeProxyApp")
       => /\ session.selected = Some(host_configs[1])
          /\ session.outcome = "peer" => session.peer[1].addr = host_configs[1].proxy_addr
    /\ GrpcNodeProxyApp_get_eligible_clusters(<<>>) = EligErr("No eligible cluster found")

\* the first node was selected although a route matches the request's
\* header, the first node's check failed, it has no tip and another node has
\* a higher priority and a tip
C26_Witness ==
    /\ session.pc = "done"
    /\ app = "GrpcNodeProxyApp"
    /\ session.outcome = "peer"
    /\ HeaderMatches(session)
    /\ session.selected = Some(host_configs[1])
    /\ backend_health[host_configs[1].proxy_uri] = "Unhealthy"
    /\ host_configs[1].proxy_uri \notin DOMAIN Tips
    /\ \E i \in DOMAIN host_configs :
           /\ host_configs[i].priority > host_configs[1].priority
           /\ host_configs[i].proxy_uri \in DOMAIN Tips

----------------------------------------------------------------------------
(***************************************************************************)
(* The unify listener.  A state with session.pc = "demuxed" is the state   *)
(* right after UnifyProxyApp::upstream_peer served a request.              *)
(***************************************************************************)

\* the names a path segment is drawn from, and the tails after two segments
SegmentNames == {"e", "s", "m", "t", "x"}
Tails == {"", "h", "h/i"}

\* the (chain_type, chain_name) pairs of the configured chains
InTable(chain_type, chain_name) ==
    chain_type \in DOMAIN chain_ports /\ chain_name \in DOMAIN chain_ports[chain_type]

\* C27: a request path /<chain_type>/<chain_name>[/<tail>] whose pair is in
\* the table with port p goes to the peer 127.0.0.1:p over plain HTTP with
\* Host 127.0.0.1; the new path is "/" and the tail when there is a tail and
\* the incoming path when there is none.
C27_UnifyDemux ==
    session.pc = "demuxed"
    => \A ct \in SegmentNames, cn \in SegmentNames :
          InTable(ct, cn)
          => /\ session.path = "/" \o ct \o "/" \o cn
                => /\ session.outcome = "peer"
                   /\ session.peer[1].addr = "127.0.0.1:" \o ToString(chain_ports[ct][cn])
                   /\ session.peer[1].tls = FALSE
                   /\ session.host = Some("127.0.0.1")
                   /\ session.uri = session.path
             /\ \A tail \in Tails :
                   session.path = "/" \o ct \o "/" \o cn \o "/" \o tail
                   => /\ session.outcome = "peer"
                      /\ session.peer[1].addr = "127.0.0.1:" \o ToString(chain_ports[ct][cn])
                      /\ session.peer[1].tls = FALSE
                      /\ session.host = Some("127.0.0.1")
                      /\ session.uri = "/" \o tail

\* /e/m/h with (e, m) -> 1090 went to 127.0.0.1:1090 with path /h
C27_Witness ==
    /\ session.pc = "demuxed"
    /\ session.path = "/e/m/h"
    /\ session.req_host = Some("front")
    /\ session.outcome = "peer"
    /\ session.peer[1].addr = "127.0.0.1:1090"
    /\ session.host = Some("127.0.0.1")
    /\ session.uri = "/h"

\* C28: when the first two path segments have no entry in the table the
\* request fails with "No matching chain found", gets no peer, and its URI
\* and Host header stay as they came.
C28_UnifyUnknownChain ==
    session.pc = "demuxed"
    => \A ct \in SegmentNames, cn \in SegmentNames :
          (/\ ~InTable(ct, cn)
           /\ session.path \in {"/" \o ct \o "/" \o cn}
                               \cup {"/" \o ct \o "/" \o cn \o "/" \o tail : tail \in Tails})
          => /\ session.outcome = "error"
             /\ session.error = "No matching chain found"
             /\ session.peer = None
             /\ session.host = session.req_host
             /\ session.uri = session.path \o QuerySuffix(session)

\* a chain type and a chain name that are each configured, but not together
C28_Witness ==
    /\ session.pc = "demuxed"
    /\ session.path = "/s/t"
    /\ "s" \in DOMAIN chain_ports
    /\ "t" \in DOMAIN chain_ports["e"]
    /\ session.query = Some("k=1")
    /\ session.error = "No matching chain found"
    /\ session.uri = "/s/t?k=1"

\* C29: a request whose path lacks a chain_type or a chain_name segment ("/",
\* "/e", and "/e/" with an empty second segment) fails with "Invalid request
\* path", not with "No matching chain found", and gets no peer.
C29_UnifyInvalidPath ==
    (session.pc = "demuxed" /\ session.path \in {"", "/", "/e", "/e/"})
    => /\ session.outcome = "error"
       /\ session.error = "Invalid request path"
       /\ session.peer = None

----------------------------------------------------------------------------
\* the bytes of a sequence of chunks, in order
RECURSIVE Concat(_)
Concat(chunks) ==
    IF chunks = <<>> THEN <<>>
    ELSE (IF is_some(Head(chunks)) THEN unwrap(Head(chunks)) ELSE <<>>)
         \o Concat(Tail(chunks))

\* C30: with log_request_detail false request_body and response_body stay
\* empty whatever chunks pass the hooks; with the flag true each buffer is,
\* at logging time, the concatenation in order of the chunks its hook has
\* seen; a hook leaves the chunk it was called with as it was.
C30_BodyCapture ==
    /\ ~log_request_detail => ctx = new_ctx
    /\ (log_request_detail /\ hooks.phase = "logged")
       => /\ ctx.request_body = Concat(hooks.seen_request)
          /\ ctx.response_body = Concat(hooks.seen_response)
    /\ hooks.body_out = hooks.body_in

\* two chunks each way, a call without a chunk among them, and both buffers
\* hold the bytes in order
C30_Witness ==
    /\ log_request_detail
    /\ hooks.phase = "logged"
    /\ hooks.seen_request = <<Some(B_a), Some(B_ab)>>
    /\ hooks.seen_response = <<None, Some(B_ab)>>
    /\ ctx.request_body = <<97, 97, 98>>
    /\ ctx.response_body = <<97, 98>>

----------------------------------------------------------------------------
(***************************************************************************)
(* The response validators of CHAIN_CHECKERS, each applied to a response   *)
(* body.  A body is the JSON document serde_json reads from the bytes, or  *)
(* Malformed for bytes that are no JSON; a string is the sequence of its   *)
(* characters.                                                             *)
(***************************************************************************)
JStr(s) == [type |-> "string", s |-> s]
JNum(n) == [type |-> "number", n |-> n]
JBool(b) == [type |-> "bool", b |-> b]
JArr(items) == [type |-> "array", items |-> items]
JObj(fields) == [type |-> "object", fields |-> fields]
Malformed == [type |-> "malformed"]

\* stands for a character of two bytes in UTF-8
TwoByteChar == "U+00E9"

\* char::len_utf8
len_utf8(c) == IF c = TwoByteChar THEN 2 ELSE 1

\* str::len: the length in bytes
RECURSIVE str_len(_)
str_len(s) == IF s = <<>> THEN 0 ELSE len_utf8(Head(s)) + str_len(Tail(s))

\* str::is_char_boundary
is_char_boundary(s, index) ==
    \E k \in 0..Len(s) : str_len(SubSeq(s, 1, k)) = index

\* &s[begin..]: None where the slice panics (begin beyond the end or inside
\* a character)
SliceFrom(s, begin) ==
    IF ~is_char_boundary(s, begin) THEN None
    ELSE LET k == CHOOSE k \in 0..Len(s) : str_len(SubSeq(s, 1, k)) = begin
         IN Some(SubSeq(s, k + 1, Len(s)))

\* the value of a digit in the radix, None for any other character
Digits == <<"0", "1", "2", "3", "4", "5", "6", "7", "8", "9",
            "a", "b", "c", "d", "e", "f">>
UpperDigits == <<"0", "1", "2", "3", "4", "5", "6", "7", "8", "9",
                 "A", "B", "C", "D", "E", "F">>
to_digit(c, radix) ==
    IF \E i \in 1..radix : Digits[i] = c \/ UpperDigits[i] = c
    THEN Some((CHOOSE i \in 1..radix : Digits[i] = c \/ UpperDigits[i] = c) - 1)
    ELSE None

RECURSIVE DigitsValue(_, _, _)
DigitsValue(digits, radix, acc) ==
    IF digits = <<>> THEN acc
    ELSE DigitsValue(Tail(digits), radix, acc * radix + unwrap(to_digit(Head(digits), radix)))

RECURSIVE StripZeros(_)
StripZeros(digits) ==
    IF digits # <<>> /\ Head(digits) = "0" THEN StripZeros(Tail(digits)) ELSE digits

\* the longest digit strings of a u64 in the radix (16 hex digits; 20 decimal
\* digits, of which the model takes none longer than 7)
MaxDigitsU64(radix) == IF radix = 16 THEN 16 ELSE 20

\* u64::from_str_radix (and str::parse::<u64> for radix 10): None for Err
from_str_radix(src, radix) ==
    IF src = <<>> THEN None
    ELSE IF Len(src) = 1 /\ Head(src) \in {"+", "-"} THEN None
    ELSE LET digits == IF Head(src) = "+" THEN Tail(src) ELSE src IN
         IF \E i \in DOMAIN digits : is_none(to_digit(digits[i], radix)) THEN None
         ELSE IF Len(StripZeros(digits)) > MaxDigitsU64(radix) THEN None
         ELSE Some(DigitsValue(StripZeros(digits), radix, 0))

\* what a call of a validator does: Ok(tip), Err(kind), or a panic
ValOk(tip) == [kind |-> "Ok", tip |-> tip, error |-> ""]
ValErr(msg) == [kind |-> "Err", tip |-> 0, error |-> msg]
ValPanic == [kind |-> "panic", tip |-> 0, error |-> ""]

\* serde: a field of an object, None if the value is no object or lacks it
Field(v, name) ==
    IF v.type = "object" /\ name \in DOMAIN v.fields THEN Some(v.fields[name]) ELSE None
\* a field that deserializes as String / u64 / bool / a struct / a Vec
HasString(v, name) == is_some(Field(v, name)) /\ unwrap(Field(v, name)).type = "string"
HasU64(v, name) ==
    /\ is_some(Field(v, name))
    /\ unwrap(Field(v, name)).type = "number"
    /\ unwrap(Field(v, name)).n >= 0
HasBool(v, name) == is_some(Field(v, name)) /\ unwrap(Field(v, name)).type = "bool"
HasObject(v, name) == is_some(Field(v, name)) /\ unwrap(Field(v, name)).type = "object"
HasArray(v, name) == is_some(Field(v, name)) /\ unwrap(Field(v, name)).type = "array"
Get(v, name) == unwrap(Field(v, name))

\* serde_json::from_slice::<EthJsonResponse>(body).is_ok()
EthJsonResponse(body) ==
    HasString(body, "jsonrpc") /\ HasU64(body, "id") /\ HasString(body, "result")

\* eth_validator: &parsed.result[2..] is a byte slice
eth_validator(body) ==
    IF ~EthJsonResponse(body) THEN ValErr("invalid json")
    ELSE IF Str(Get(body, "jsonrpc").s) # "2.0" THEN ValErr("invalid jsonrpc")
    ELSE LET slice == SliceFrom(Get(body, "result").s, 2) IN
         IF is_none(slice) THEN ValPanic
         ELSE LET block_number == from_str_radix(unwrap(slice), 16) IN
              IF is_none(block_number) THEN ValErr("invalid block number")
              ELSE ValOk(unwrap(block_number))

RippleJsonResponse(body) ==
    /\ HasObject(body, "result")
    /\ HasString(Get(body, "result"), "ledger_hash")
    /\ HasU64(Get(body, "result"), "ledger_index")
    /\ HasString(Get(body, "result"), "status")

ripple_validator(body) ==
    IF ~RippleJsonResponse(body) THEN ValErr("invalid json")
    ELSE IF Str(Get(Get(body, "result"), "status").s) # "success" THEN ValErr("invalid status")
    ELSE ValOk(Get(Get(body, "result"), "ledger_index").n)

CosmosJsonResponse(body) ==
    /\ HasObject(body, "block")
    /\ HasObject(Get(body, "block"), "header")
    /\ HasString(Get(Get(body, "block"), "header"), "height")

cosmos_validator(body) ==
    IF ~CosmosJsonResponse(body) THEN ValErr("invalid json")
    ELSE LET block_number ==
                 from_str_radix(Get(Get(Get(body, "block"), "header"), "height").s, 10) IN
         IF is_none(block_number) THEN ValErr("invalid block number")
         ELSE ValOk(unwrap(block_number))

RosettaJsonResponse(body) ==
    /\ HasObject(body, "current_block_identifier")
    /\ HasU64(Get(body, "current_block_identifier"), "index")
    /\ HasString(Get(body, "current_block_identifier"), "hash")

rosetta_validator(body) ==
    IF ~RosettaJsonResponse(body) THEN ValErr("invalid json")
    ELSE ValOk(Get(Get(body, "current_block_identifier"), "index").n)

SolanaJsonResponse(body) ==
    /\ HasString(body, "jsonrpc") /\ HasU64(body, "id")
    /\ HasObject(body, "result")
    /\ HasU64(Get(body, "result"), "absoluteSlot")

solana_validator(body) ==
    IF ~SolanaJsonResponse(body) THEN ValErr("invalid json")
    ELSE IF Str(Get(body, "jsonrpc").s) # "2.0" THEN ValErr("invalid jsonrpc")
    ELSE ValOk(Get(Get(body, "result"), "absoluteSlot").n)

BitcoinJsonResponse(body) == HasString(body, "id") /\ HasU64(body, "result")

bitcoin_validator(body) ==
    IF ~BitcoinJsonResponse(body) THEN ValErr("invalid json")
    ELSE IF Str(Get(body, "id").s) # "1.0" THEN ValErr("invalid jsonrpc")
    ELSE ValOk(Get(body, "result").n)

TronJsonResponse(body) ==
    /\ HasObject(body, "block_header")
    /\ HasObject(Get(body, "block_header"), "raw_data")
    /\ HasU64(Get(Get(body, "block_header"), "raw_data"), "number")

tron_validator(body) ==
    IF ~TronJsonResponse(body) THEN ValErr("invalid json")
    ELSE ValOk(Get(Get(Get(body, "block_header"), "raw_data"), "number").n)

tron_grpc_validator(body) == ValOk(1000)

StellarLedgerResponse(body) ==
    /\ HasObject(body, "_embedded")
    /\ HasArray(Get(body, "_embedded"), "records")
    /\ \A i \in DOMAIN Get(Get(body, "_embedded"), "records").items :
           HasU64(Get(Get(body, "_embedded"), "records").items[i], "sequence")

stellar_validator(body) ==
    IF ~StellarLedgerResponse(body) THEN ValErr("invalid json")
    ELSE LET records == Get(Get(body, "_embedded"), "records").items IN
         IF records = <<>> THEN ValErr("no records found")
         ELSE ValOk(Get(records[1], "sequence").n)

AlgorandJsonResponse(body) == HasU64(body, "last-round")

algorand_validator(body) ==
    IF ~AlgorandJsonResponse(body) THEN ValErr("invalid json")
    ELSE ValOk(Get(body, "last-round").n)

TonJsonResponse(body) ==
    /\ HasBool(body, "ok")
    /\ HasObject(body, "result")
    /\ HasObject(Get(body, "result"), "last")
    /\ HasU64(Get(Get(body, "result"), "last"), "seqno")

ton_validator(body) ==
    IF ~TonJsonResponse(body) THEN ValErr("invalid json")
    ELSE IF ~Get(body, "ok").b THEN ValErr("invalid response")
    ELSE ValOk(Get(Get(Get(body, "result"), "last"), "seqno").n)

PolkadotSyncStateResponse(body) ==
    /\ HasString(body, "jsonrpc") /\ HasU64(body, "id")
    /\ HasObject(body, "result")
    /\ HasU64(Get(body, "result"), "currentBlock")
    /\ HasU64(Get(body, "result"), "highestBlock")
    /\ HasU64(Get(body, "result"), "startingBlock")

polkadot_validator(body) ==
    IF ~PolkadotSyncStateResponse(body) THEN ValErr("Invalid JSON")
    ELSE IF Str(Get(body, "jsonrpc").s) # "2.0" THEN ValErr("Invalid JSON-RPC")
    ELSE ValOk(Get(Get(body, "result"), "highestBlock").n)

\* init_chain_checker: the validator registered for each chain type
checker_validator(chain_type, body) ==
    CASE chain_type = "ethereum"  -> eth_validator(body)
      [] chain_type = "ripple"    -> ripple_validator(body)
      [] chain_type = "cosmos"    -> cosmos_validator(body)
      [] chain_type = "cardano"   -> rosetta_validator(body)
      [] chain_type = "icp"       -> rosetta_validator(body)
      [] chain_type = "solana"    -> solana_validator(body)
      [] chain_type = "bitcoin"   -> bitcoin_validator(body)
      [] chain_type = "tron"      -> tron_validator(body)
      [] chain_type = "tron_grpc" -> tron_grpc_validator(body)
      [] chain_type = "stellar"   -> stellar_validator(body)
      [] chain_type = "algorand"  -> algorand_validator(body)
      [] chain_type = "ton"       -> ton_validator(body)
      [] chain_type = "polkadot"  -> polkadot_validator(body)

\* strings of the bodies
S_2_0 == <<"2", ".", "0">>
S_1_0 == <<"1", ".", "0">>
S_success == <<"s", "u", "c", "c", "e", "s", "s">>
S_error == <<"e", "r", "r", "o", "r">>

\* a JSON-RPC response of an ethereum node with the given version and result
EthBody(jsonrpc, result) == JObj([jsonrpc |-> JStr(jsonrpc), id |-> JNum(1), result |-> result])

\* the result strings of the ethereum bodies
EthResults ==
    { <<"0", "x", "1", "f">>, <<"0", "x", "1", "F">>, <<"0", "x">>, <<"0", "x", "0", "0", "2">>,
      <<>>, <<"0">>, <<"x">>, <<"1", "f", "2">>, <<"1", "2">>, <<"0", "X", "a">>,
      <<"0", "x", "z">>, <<"0", "x", "+", "a">>, <<"0", "x", "-", "a">>, <<"0", "x", "+">>,
      <<TwoByteChar>>, <<"0", TwoByteChar>>, <<TwoByteChar, "1">>, <<"0", "x", TwoByteChar>>,
      <<"0", "x", "1", "0", "0", "0", "0", "0", "0", "0", "0", "0", "0", "0", "0", "0", "0",
        "0", "0">> }

\* the response bodies a validator is called with
Bodies ==
    {Malformed, JObj(<<>>), JNum(7), JStr(S_2_0)}
    \cup {EthBody(S_2_0, JStr(r)) : r \in EthResults}
    \cup {EthBody(S_1_0, JStr(<<"0", "x", "1">>)), EthBody(S_2_0, JNum(31)),
          JObj([jsonrpc |-> JStr(S_2_0), id |-> JNum(-1), result |-> JStr(<<"0", "x", "1">>)]),
          JObj([jsonrpc |-> JStr(S_2_0), result |-> JStr(<<"0", "x", "1">>)])}
    \cup {JObj([result |-> JObj([ledger_hash |-> JStr(<<"h">>), ledger_index |-> JNum(9),
                                 status |-> JStr(st)])]) : st \in {S_success, S_error}}
    \cup {JObj([block |-> JObj([header |-> JObj([height |-> JStr(h)])])]) :
              h \in {<<"1", "2">>, <<"0", "x", "c">>, <<>>, <<"+", "7">>}}
    \cup {JObj([current_block_identifier |-> JObj([index |-> JNum(5), hash |-> JStr(<<"h">>)])]),
          JObj([current_block_identifier |-> JObj([index |-> JNum(5)])])}
    \cup {JObj([jsonrpc |-> JStr(v), id |-> JNum(1), result |-> JObj([absoluteSlot |-> JNum(8)])]) :
              v \in {S_2_0, S_1_0}}
    \cup {JObj([id |-> JStr(v), result |-> JNum(6)]) : v \in {S_2_0, S_1_0}}
    \cup {JObj([block_header |-> JObj([raw_data |-> JObj([number |-> JNum(4)])])])}
    \cup {JObj([_embedded |-> JObj([records |-> JArr(rs)])]) :
              rs \in {<<>>, <<JObj([sequence |-> JNum(3)])>>,
                      <<JObj([sequence |-> JNum(3)]), JObj([sequence |-> JNum(2)])>>,
                      <<JObj([sequence |-> JNum(3)]), JObj(<<>>)>>}}
    \cup {JObj("last-round" :> JNum(2)), JObj("last_round" :> JNum(2))}
    \cup {JObj([ok |-> JBool(b), result |-> JObj([last |-> JObj([seqno |-> JNum(1)])])]) :
              b \in BOOLEAN}
    \cup {JObj([jsonrpc |-> JStr(v), id |-> JNum(1),
                result |-> JObj([currentBlock |-> JNum(1), highestBlock |-> JNum(2),
                                 startingBlock |-> JNum(0)])]) : v \in {S_2_0, S_1_0}}

\* no validator has been called
InitValidator ==
    /\ app = "NodeProxyApp"
    /\ protocol = ConcListener.protocol
    /\ host_configs = CollectConfigs(ConcListener.nodes, ConcListener)
    /\ special_method_configs = CollectSpecialMethods(ConcListener)
    /\ clusters = BuildClusters(CollectConfigs(ConcListener.nodes, ConcListener))
    /\ chain_ports = EmptyMap
    /\ log_request_detail = FALSE
    /\ chain_state = [chain_name |-> ConcListener.name, block_numbers |-> EmptyMap]
    /\ node_state = [node_name |-> ConcListener.name, health_status |-> EmptyMap]
    /\ backend_health = [u \in BuildClusters(CollectConfigs(ConcListener.nodes, ConcListener))
                           |-> "Unknown"]
    /\ node_height_gauge = EmptyMap
    /\ session = IdleSession
    /\ last_probe = None
    /\ chain_state_lock = None
    /\ METRICS_lock = None
    /\ checker = <<>>
    /\ handler = IdleHandler
    /\ last_write = EmptyMap
    /\ ctx = new_ctx
    /\ hooks = IdleHooks
    /\ validated = None
    /\ METRICS = Some(Metrics_new)
    /\ metrics_call = None

not_call_vars ==
    <<config_vars, chain_state, node_state, backend_health, node_height_gauge, session,
      last_probe, chain_state_lock, METRICS_lock, checker, handler, last_write, ctx_vars>>

\* ChainHealthCheck::check calls the validator of its chain type on a response
\* body: let chain_state_result = validator(&response_body); the same bytes
\* are validated a second time to compare the two calls
ValidatorCall ==
    \E chain_type \in RegisteredChainTypes : \E body \in Bodies :
        /\ validated' = Some([chain_type |-> chain_type, body |-> body,
                              result |-> checker_validator(chain_type, body),
                              again  |-> checker_validator(chain_type, body)])
        /\ UNCHANGED <<not_call_vars, METRICS, metrics_call>>

NextValidator == ValidatorCall

SpecValidator == InitValidator /\ [][NextValidator]_vars

\* C31: every call of a registered validator returns a tip or an error value
\* and never aborts, and a second call on the same bytes returns the same tip
\* or the same error kind; this includes the ethereum validator on a result
\* string shorter than two characters or without the "0x" prefix.
C31_ValidatorsTotal ==
    is_some(validated) =>
        /\ unwrap(validated).result.kind \in {"Ok", "Err"}
        /\ unwrap(validated).again = unwrap(validated).result

----------------------------------------------------------------------------
(***************************************************************************)
(* The chain listeners with the schedule of their health checks: pingora   *)
(* runs the health check of every cluster again after each                 *)
(* health_check_frequency interval for as long as the server runs.         *)
(***************************************************************************)

\* the chain listeners of the configurations
ChainListeners == {l \in Listeners : l.kind = "Chain"}

InitLive ==
    \E l \in ChainListeners :
        /\ app = "NodeProxyApp"
        /\ protocol = l.protocol
        /\ host_configs = CollectConfigs(l.nodes, l)
        /\ special_method_configs = CollectSpecialMethods(l)
        /\ clusters = BuildClusters(CollectConfigs(l.nodes, l))
        /\ chain_ports = EmptyMap
        /\ log_request_detail = FALSE
        /\ ctx = new_ctx
        /\ hooks = IdleHooks
        /\ chain_state = [chain_name |-> l.name, block_numbers |-> EmptyMap]
        /\ node_state = [node_name |-> l.name, health_status |-> EmptyMap]
        /\ backend_health = [u \in BuildClusters(CollectConfigs(l.nodes, l)) |-> "Unknown"]
        /\ node_height_gauge = EmptyMap
        /\ session = IdleSession
        /\ last_probe = None
        /\ chain_state_lock = None
        /\ METRICS_lock = None
        /\ checker = <<>>
        /\ handler = IdleHandler
        /\ last_write = EmptyMap
        /\ validated = None
        /\ METRICS = Some(Metrics_new)
        /\ metrics_call = None

\* the most clusters a listener of the configurations has
MaxClusters == 3

\* one tick of the health check of cluster i
ProbeTick(i) ==
    /\ i \in DOMAIN host_configs
    /\ \E resp \in ProbeResponses : ChainHealthCheck_check(i, resp)
    /\ session' = IdleSession

ChainProbeTick == \E i \in 1..MaxClusters : ProbeTick(i)

NextLive == ChainProbeTick \/ HandleRequest

\* every cluster's health check keeps ticking
SpecLive ==
    /\ InitLive
    /\ [][NextLive]_vars
    /\ \A i \in 1..MaxClusters : WF_vars(ProbeTick(i))

\* the step ran the health check of cluster i
ProbeOf(i) ==
    /\ i \in DOMAIN host_configs
    /\ is_some(last_probe')
    /\ unwrap(last_probe').host = host_configs[i].proxy_uri

\* the health check the step ran succeeded with a positive tip
ProbeSucceededPositive ==
    /\ unwrap(last_probe').ok
    /\ is_some(unwrap(last_probe').tip)
    /\ unwrap(unwrap(last_probe').tip) > 0

\* a request without a special-method header was just served
HeaderlessServed == session.pc = "done" /\ is_none(session.method_header)

\* the clusters get_eligible_clusters hands to the bucketing for a request
\* without a special-method header
NormalEligible ==
    LET e == NodeProxyApp_get_eligible_clusters(Request(None, "/", None),
                                                chain_state.block_numbers)
    IN IF e.kind # "ok" THEN {}
       ELSE UNION {SeqToSet(e.clusters_by_priority[p]) : p \in DOMAIN e.clusters_by_priority}

\* the last step's health check of cluster i succeeded and left its tip
\* within block_gap of the maximum
ProbedWithinGap(i) ==
    /\ is_some(last_probe)
    /\ unwrap(last_probe).host = host_configs[i].proxy_uri
    /\ unwrap(last_probe).ok
    /\ is_some(unwrap(last_probe).tip)
    /\ TipsMax > 0
    /\ TipsMax - unwrap(unwrap(last_probe).tip) <= host_configs[i].block_gap

\* C32: with every health check ticking, if from some point on the probes of
\* a configured node keep succeeding with a positive tip, then eventually and
\* from then on every request without a special-method header obtains a peer;
\* and a node whose probe has just succeeded with a tip within block_gap of
\* the maximum is selectable again, whatever its earlier probes did.
C32_ProbeFailuresRecoverable ==
    /\ \A i \in 1..MaxClusters :
           (i \in DOMAIN host_configs /\ <>[][ProbeOf(i) => ProbeSucceededPositive]_vars)
           => <>[](HeaderlessServed => session.outcome = "peer")
    /\ [](\A i \in DOMAIN host_configs : ProbedWithinGap(i) => host_configs[i] \in NormalEligible)

----------------------------------------------------------------------------
(***************************************************************************)
(* The metrics module on its own: init_metrics and the two update          *)
(* functions, called in any order with any label values.                   *)
(***************************************************************************)

\* most increments of one counter series
MaxCount == 2

\* label values of the calls
MetricChains == {"eth"}
MetricHosts == {"a", "unknown"}
MetricCodes == {"200", "0"}
MetricMethods == {"POST"}
CounterLabels ==
    {<<c, h, code, m>> : c \in MetricChains, h \in MetricHosts,
                         code \in MetricCodes, m \in MetricMethods}
GaugeLabels == {<<c, h>> : c \in MetricChains, h \in MetricHosts}

\* `height as f64`: exact for every height below 2^53, which the heights of
\* the model are
as_f64(height) == height

\* a vector's series of the label values: with_label_values creates it at 0
with_label_values(vec, labels) == IF labels \in DOMAIN vec THEN vec[labels] ELSE 0

\* an increment that stores 1
CounterInc_One(vec, labels) == MapInsert(vec, labels, 1)

\* CounterVec::with_label_values(..).inc()
CounterInc(vec, labels) == MapInsert(vec, labels, with_label_values(vec, labels) + 1)

\* GaugeVec::with_label_values(..).set(v)
GaugeSet(vec, labels, v) == MapInsert(vec, labels, v)

\* Metrics::set_node_height_gauge
Metrics_set_node_height_gauge(m, chain, host, height) ==
    [m EXCEPT !.node_height_gauge = GaugeSet(@, <<chain, host>>, as_f64(height))]

\* Metrics::inc_proxy_result_counter
Metrics_inc_proxy_result_counter(m, chain, host, code, method) ==
    [m EXCEPT !.proxy_result_counter = CounterInc(@, <<chain, host, code, method>>)]

\* the process before main reaches init_metrics: lazy_static METRICS = None
InitMetrics ==
    /\ app = "NodeProxyApp"
    /\ protocol = ConcListener.protocol
    /\ host_configs = CollectConfigs(ConcListener.nodes, ConcListener)
    /\ special_method_configs = CollectSpecialMethods(ConcListener)
    /\ clusters = BuildClusters(CollectConfigs(ConcListener.nodes, ConcListener))
    /\ chain_ports = EmptyMap
    /\ log_request_detail = FALSE
    /\ chain_state = [chain_name |-> ConcListener.name, block_numbers |-> EmptyMap]
    /\ node_state = [node_name |-> ConcListener.name, health_status |-> EmptyMap]
    /\ backend_health = [u \in BuildClusters(CollectConfigs(ConcListener.nodes, ConcListener))
                           |-> "Unknown"]
    /\ node_height_gauge = EmptyMap
    /\ session = IdleSession
    /\ last_probe = None
    /\ chain_state_lock = None
    /\ METRICS_lock = None
    /\ checker = <<>>
    /\ handler = IdleHandler
    /\ last_write = EmptyMap
    /\ ctx = new_ctx
    /\ hooks = IdleHooks
    /\ validated = None
    /\ METRICS = None
    /\ metrics_call = None

\* the record of a call: the function, its label values, its height, and
\* METRICS as the call found it
MetricsCall(name, labels, height) ==
    Some([fn |-> name, labels |-> labels, height |-> height, before |-> METRICS])

\* init_metrics: Metrics::new(system).register()? and *metrics_lock = Some(metrics);
\* a second registration in the default registry fails and returns the error
init_metrics ==
    /\ METRICS' = IF is_some(METRICS) THEN METRICS ELSE Some(Metrics_new)
    /\ metrics_call' = MetricsCall("init_metrics", <<>>, 0)
    /\ UNCHANGED <<not_call_vars, validated>>

\* metrics::set_node_height_gauge
set_node_height_gauge(chain, host, height) ==
    /\ METRICS' = IF is_some(METRICS)
                  THEN Some(Metrics_set_node_height_gauge(unwrap(METRICS), chain, host, height))
                  ELSE METRICS
    /\ metrics_call' = MetricsCall("set_node_height_gauge", <<chain, host>>, height)
    /\ UNCHANGED <<not_call_vars, validated>>

\* metrics::inc_proxy_result_counter
inc_proxy_result_counter(chain, host, code, method) ==
    /\ is_some(METRICS)
       => with_label_values(unwrap(METRICS).proxy_result_counter,
                            <<chain, host, code, method>>) < MaxCount
    /\ METRICS' = IF is_some(METRICS)
                  THEN Some(Metrics_inc_proxy_result_counter(unwrap(METRICS), chain, host,
                                                             code, method))
                  ELSE METRICS
    /\ metrics_call' = MetricsCall("inc_proxy_result_counter", <<chain, host, code, method>>, 0)
    /\ UNCHANGED <<not_call_vars, validated>>

SetNodeHeightGauge ==
    \E l \in GaugeLabels : \E height \in 0..MaxTip : set_node_height_gauge(l[1], l[2], height)

IncProxyResultCounter ==
    \E l \in CounterLabels : inc_proxy_result_counter(l[1], l[2], l[3], l[4])

NextMetrics == init_metrics \/ SetNodeHeightGauge \/ IncProxyResultCounter

SpecMetrics == InitMetrics /\ [][NextMetrics]_vars

\* the series of vector `after` are those of `before` with the series of
\* `labels` at value v and every other series as it was
OnlySeriesChanged(before, after, labels, v) ==
    /\ DOMAIN after = DOMAIN before \cup {labels}
    /\ after[labels] = v
    /\ \A l \in DOMAIN before : l # labels => after[l] = before[l]

\* C33: once init_metrics has succeeded, inc_proxy_result_counter adds
\* exactly 1 to the counter series of its label tuple and touches no other
\* series (so there is one series per distinct label tuple used), and
\* set_node_height_gauge sets the one gauge series of (chain, host) to the
\* height; a call made before init_metrics changes nothing.
C33_MetricsSurface ==
    is_some(metrics_call) =>
        LET c == unwrap(metrics_call) IN
        /\ (is_none(c.before) /\ c.fn # "init_metrics") => METRICS = None
        /\ (is_none(c.before) /\ c.fn = "init_metrics") => METRICS = Some(Metrics_new)
        /\ (is_some(c.before) /\ c.fn = "inc_proxy_result_counter") =>
               /\ is_some(METRICS)
               /\ unwrap(METRICS).node_height_gauge = unwrap(c.before).node_height_gauge
               /\ OnlySeriesChanged(unwrap(c.before).proxy_result_counter,
                                    unwrap(METRICS).proxy_result_counter, c.labels,
                                    (IF c.labels \in DOMAIN unwrap(c.before).proxy_result_counter
                                     THEN unwrap(c.before).proxy_result_counter[c.labels]
                                     ELSE 0) + 1)
        /\ (is_some(c.before) /\ c.fn = "set_node_height_gauge") =>
               /\ is_some(METRICS)
               /\ unwrap(METRICS).proxy_result_counter = unwrap(c.before).proxy_result_counter
               /\ OnlySeriesChanged(unwrap(c.before).node_height_gauge,
                                    unwrap(METRICS).node_height_gauge, c.labels, c.height)

\* after init_metrics a counter series was incremented a second time while
\* another counter series and a gauge series exist
C33_Witness ==
    /\ is_some(metrics_call)
    /\ unwrap(metrics_call).fn = "inc_proxy_result_counter"
    /\ is_some(unwrap(metrics_call).before)
    /\ unwrap(METRICS).proxy_result_counter[unwrap(metrics_call).labels] = 2
    /\ Cardinality(DOMAIN unwrap(METRICS).proxy_result_counter) >= 2
    /\ DOMAIN unwrap(METRICS).node_height_gauge # {}

\* C34 (as claimed): chain mode: whenever the tips map has a maximum greater
\* than 0, the eligible set is non-empty and a request without a matching
\* special-method header obtains a peer; NoTipYet is the only failure of that
\* path.
C34_NormalPathHasPeer ==
    ChainNormalDone =>
        /\ TipsMax > 0 => (EligibleSet(RequestOf(session)) # {} /\ session.outcome = "peer")
        /\ session.outcome # "peer" => NoTipYet(session)

\* the step ran a chain health check that returned an error
ChainProbeFailed ==
    /\ app \in {"NodeProxyApp", "GrpcNodeProxyApp"}
    /\ is_some(last_probe')
    /\ ~unwrap(last_probe').ok

\* C35: a chain probe that fails (invalid method, transport error, unreadable
\* body, validator error) leaves ChainState, with every recorded tip, and the
\* node_height_gauge exactly as they were.
C35_FailedProbeKeepsState ==
    [][ChainProbeFailed => (chain_state' = chain_state /\ node_height_gauge' = node_height_gauge)]_vars

\* the last probe of a node failed and the positive tip recorded for it by an
\* earlier probe is still there, in ChainState and in the gauge
C35_Witness ==
    /\ app = "NodeProxyApp"
    /\ is_some(last_probe)
    /\ ~unwrap(last_probe).ok
    /\ unwrap(last_probe).resp.kind = "send_error"
    /\ unwrap(last_probe).host \in DOMAIN Tips
    /\ Tips[unwrap(last_probe).host] > 0
    /\ node_height_gauge[unwrap(last_probe).host] = Tips[unwrap(last_probe).host]

\* C36: a chain listener whose chain_type has no registered validator never
\* serves a normal request: however many probes have succeeded, a request
\* without a matching special-method header fails with NoTipYet.
C36_UnknownChainNeverServes ==
    (ChainNormalDone /\ ~ChainTypeRegistered) => NoTipYet(session)

\* on a listener of an unregistered chain type, with every backend marked
\* healthy by a successful probe, a request without a special-method header
\* was just refused
C36_Witness ==
    /\ ChainNormalDone
    /\ ~ChainTypeRegistered
    /\ is_none(session.method_header)
    /\ \A u \in DOMAIN backend_health : backend_health[u] = "Healthy"
    /\ NoTipYet(session)

\* a - b on u64 underflows (a panic with overflow checks, a wrap without)
SubUnderflows(a, b) == a < b

\* C37: when the request task applies the gap filter to its copy of
\* block_numbers, max_block_number - current_block_number underflows for no
\* node with a tip in the copy, whatever the health checks have written and
\* write meanwhile.
C37_GapSubtractionNoUnderflow ==
    handler.pc = "select" =>
        \A i \in DOMAIN host_configs :
            host_configs[i].proxy_uri \in DOMAIN handler.block_numbers
            => ~SubUnderflows(MaxBlockNumber(handler.block_numbers),
                              handler.block_numbers[host_configs[i].proxy_uri])

\* the request task filters a copy with two different tips, the larger
\* positive, while ChainState already holds a larger tip for the lower node
C37_Witness ==
    /\ handler.pc = "select"
    /\ \E i, j \in DOMAIN host_configs :
          /\ host_configs[i].proxy_uri \in DOMAIN handler.block_numbers
          /\ host_configs[j].proxy_uri \in DOMAIN handler.block_numbers
          /\ handler.block_numbers[host_configs[i].proxy_uri]
                 < handler.block_numbers[host_configs[j].proxy_uri]
          /\ chain_state.block_numbers[host_configs[i].proxy_uri]
                 > handler.block_numbers[host_configs[j].proxy_uri]

\* C38: with METRICS initialised before the first probe, in every state in
\* which no task holds the ChainState mutex, node_height_gauge{chain, h}
\* equals ChainState.block_numbers[h] for every host h with a recorded tip,
\* under any interleaving of the health checks and the request task.
C38_GaugeAgreesWithState ==
    (is_some(METRICS) /\ chain_state_lock = None) =>
        \A h \in DOMAIN Tips :
            h \in DOMAIN node_height_gauge /\ node_height_gauge[h] = Tips[h]

\* the mutex is free, both nodes have a tip and a gauge value, one of them
\* overwritten by a second probe, and the other health check waits for the lock
C38_Witness ==
    /\ chain_state_lock = None
    /\ is_some(METRICS)
    /\ Cardinality(DOMAIN Tips) = 2
    /\ \A h \in DOMAIN Tips : node_height_gauge[h] = Tips[h]
    /\ \E i, j \in DOMAIN checker :
          /\ i # j
          /\ checker[i].pc = "lock"
          /\ checker[j].pc = "await"
          /\ unwrap(checker[i].tip) # Tips[ProbeHost(host_configs[i])]

\* the step ran a common health check
CommonProbed == app = "CommonProxyApp" /\ is_some(last_probe')

\* the request of the probed host was sent and answered with a 2xx status
SentAnd2xx(p) ==
    /\ \A i \in DOMAIN host_configs :
           host_configs[i].proxy_uri = p.host => host_configs[i].method \in {"GET", "POST"}
    /\ p.resp.kind # "send_error"
    /\ p.resp.status \in 200..299

\* C39: after a completed common probe of host h, NodeState.health_status[h]
\* is true if and only if the request was sent and the response status was
\* 2xx (false on an invalid method, a transport error, a non-2xx status),
\* and the flags of the other hosts are as before.
C39_HealthFlagTracksProbe ==
    [][CommonProbed =>
          LET p == unwrap(last_probe') IN
          /\ DOMAIN node_state'.health_status = DOMAIN node_state.health_status \cup {p.host}
          /\ node_state'.health_status[p.host] = SentAnd2xx(p)
          /\ \A k \in DOMAIN node_state.health_status :
                 k # p.host => node_state'.health_status[k] = node_state.health_status[k]
      ]_vars

\* the last probe of a host got a non-2xx response and left its flag false
\* while the flag of another host is true
C39_Witness ==
    /\ app = "CommonProxyApp"
    /\ is_some(last_probe)
    /\ unwrap(last_probe).resp.kind = "response"
    /\ unwrap(last_probe).resp.status = 500
    /\ node_state.health_status[unwrap(last_probe).host] = FALSE
    /\ backend_health[unwrap(last_probe).host] = "Unhealthy"
    /\ \E k \in DOMAIN node_state.health_status :
          k # unwrap(last_probe).host /\ node_state.health_status[k]

\* the paths the unify listener can forward: incoming paths and "/" with a
\* tail, none of them with a query
ForwardedPaths == {Str(p) : p \in UnifyPaths} \cup {"/" \o tail : tail \in Tails}

\* C40: for every request the unify listener demultiplexes, with or without
\* a tail, the forwarded URI is a path only: a query of the incoming request
\* is not in it.
C40_UnifyDropsQuery ==
    (session.pc = "demuxed" /\ session.outcome = "peer") =>
        /\ session.uri \in ForwardedPaths
        /\ is_some(session.query) =>
               \A p \in ForwardedPaths : session.uri # p \o "?" \o unwrap(session.query)

\* /e/m/h?k=1 was forwarded as /h
C40_Witness ==
    /\ session.pc = "demuxed"
    /\ session.outcome = "peer"
    /\ session.path = "/e/m/h"
    /\ session.query = Some("k=1")
    /\ session.uri = "/h"

====
